---- MODULE Spec2Model ----
(***************************************************************************)
(* Model of the Toshy configuration generator (toshy/config_generator.py): *)
(* the key-binding formatter, the section generators, the template         *)
(* assembler, the validator and the command-line driver.                   *)
(*                                                                         *)
(* Text is a sequence of symbols.  A symbol is a one-character string, or  *)
(* one whole line of fixed template text of the source.  Every piece of    *)
(* text that comes from the input (names, chords, levels) is made of       *)
(* one-character symbols, so the textual rewrites of the source (replace,  *)
(* startswith, endswith, lower) are computed character by character.       *)
(***************************************************************************)
EXTENDS Integers, Sequences, FiniteSets, TLC

VARIABLES
    key_binding,      \* _format_key_binding: the argument
    formatted,        \* _format_key_binding: the returned text
    fpc,              \* _format_key_binding: "idle" | "call" | "done"
    options,          \* generate_config: the options bundle
    custom_config,    \* generate_config: the custom-code text
    config_content,   \* generate_config: the returned document
    fragments,        \* generate_config: the four section fragments
    valid,            \* validate_config: the returned value
    gpc,              \* generator: "idle" | "call" | "generated" | "validated"
    args,             \* main: the parsed arguments --validate and --output
    env,              \* main: what --options and --custom-config name; the disk
    fs,               \* main: the file system below the working directory
    written,          \* main: the texts written to the output path, in order
    printed,          \* main: the messages printed, in order
    steps,            \* main: the steps begun, in order
    failure,          \* main: the step that failed and the text of its exception
    result,           \* main: how it ended: returned a code, or raised
    mpc,              \* main: "idle" | "load" | "custom" | "generate" | ... | "done"
    location_kind,    \* daemon: what each of the config locations names on disk
    location_index,   \* daemon: find_config_file, the location the loop is at
    config_path,      \* daemon: find_config_file, the value returned
    dpc,              \* daemon: "idle" | "loop" | "returned"
    wfd,              \* daemon.wait_for_display: environment, loop counter, result
    cfg,              \* config: the toshy-config command, its files and its result
    tray,             \* tray.main: the modules that can be imported, the result
    svc,              \* ServiceManager: the commands run and the notifications sent
    term,             \* run_cmd_lst_in_terminal: arguments, terminals, result
    sig               \* daemon.main, subprocess mode: daemon, child and signals

fmtVars == <<key_binding, formatted, fpc>>
genVars == <<options, custom_config, fragments, config_content, valid, gpc>>
mainVars == <<args, env, fs, written, printed, steps, failure, result, mpc>>
daemonVars == <<location_kind, location_index, config_path, dpc>>
laterVars == <<wfd, cfg, tray, svc, term, sig>>
vars    == <<fmtVars, genVars, mainVars, daemonVars, laterVars>>

\* the value of a variable whose function is not called
NotCalled == [pc |-> "idle"]

\* every function but the one named is not called
LaterIdleExcept(v) ==
    /\ IF v = "wfd" THEN TRUE ELSE wfd = NotCalled
    /\ IF v = "cfg" THEN TRUE ELSE cfg = NotCalled
    /\ IF v = "tray" THEN TRUE ELSE tray = NotCalled
    /\ IF v = "svc" THEN TRUE ELSE svc = NotCalled
    /\ IF v = "term" THEN TRUE ELSE term = NotCalled
    /\ IF v = "sig" THEN TRUE ELSE sig = NotCalled

(***************************************************************************)
(* Text helpers: Python str operations on sequences of symbols.            *)
(***************************************************************************)
DQ == "\""
SQ == "'"
NL == "\n"
SP == " "

\* s.startswith(p)
StartsWith(s, p) == Len(s) >= Len(p) /\ SubSeq(s, 1, Len(p)) = p

\* s.endswith(p)
EndsWith(s, p) == Len(s) >= Len(p) /\ SubSeq(s, Len(s) - Len(p) + 1, Len(s)) = p

\* p occurs in s at position i
MatchAt(s, p, i) ==
    /\ i >= 1
    /\ i + Len(p) - 1 <= Len(s)
    /\ Len(p) = 0 \/ (s[i] = p[1] /\ SubSeq(s, i, i + Len(p) - 1) = p)

\* the positions at which p occurs in s
Matches(s, p) == {i \in 1..(Len(s) - Len(p) + 1) : MatchAt(s, p, i)}

\* p in s
Contains(s, p) == Len(p) = 0 \/ Matches(s, p) # {}

\* s.count(p) for a non-empty p: the occurrences met scanning left to right,
\* each scan resuming after the occurrence found
RECURSIVE CountFrom(_, _, _)
CountFrom(s, p, from) ==
    LET rest == {i \in Matches(s, p) : i >= from}
    IN  IF rest = {} THEN 0
        ELSE LET first == CHOOSE i \in rest : \A j \in rest : i <= j
             IN  1 + CountFrom(s, p, first + Len(p))

Count(s, p) == CountFrom(s, p, 1)

\* s.replace(old, new): every non-overlapping occurrence, left to right
RECURSIVE Replace(_, _, _)
Replace(s, old, new) ==
    IF Len(s) < Len(old) THEN s
    ELSE IF SubSeq(s, 1, Len(old)) = old
         THEN new \o Replace(SubSeq(s, Len(old) + 1, Len(s)), old, new)
         ELSE <<Head(s)>> \o Replace(Tail(s), old, new)

LowerChar(c) ==
    CASE c = "A" -> "a" [] c = "B" -> "b" [] c = "C" -> "c" [] c = "D" -> "d"
      [] c = "E" -> "e" [] c = "F" -> "f" [] c = "G" -> "g" [] c = "H" -> "h"
      [] c = "I" -> "i" [] c = "J" -> "j" [] c = "K" -> "k" [] c = "L" -> "l"
      [] c = "M" -> "m" [] c = "N" -> "n" [] c = "O" -> "o" [] c = "P" -> "p"
      [] c = "Q" -> "q" [] c = "R" -> "r" [] c = "S" -> "s" [] c = "T" -> "t"
      [] c = "U" -> "u" [] c = "V" -> "v" [] c = "W" -> "w" [] c = "X" -> "x"
      [] c = "Y" -> "y" [] c = "Z" -> "z" [] OTHER -> c

\* s.lower()
Lower(s) == [i \in 1..Len(s) |-> LowerChar(s[i])]

\* '\n'.join(lines)
RECURSIVE Join(_)
Join(lines) ==
    IF Len(lines) = 0 THEN <<>>
    ELSE IF Len(lines) = 1 THEN lines[1]
    ELSE lines[1] \o <<NL>> \o Join(Tail(lines))

\* concatenation of a sequence of texts
RECURSIVE Flatten(_)
Flatten(ss) == IF Len(ss) = 0 THEN <<>> ELSE Head(ss) \o Flatten(Tail(ss))

(***************************************************************************)
(* The modifier tokens and the target syntax of the formatter.             *)
(***************************************************************************)
CmdTok   == <<"C", "m", "d", "+">>
CtrlTok  == <<"C", "t", "r", "l", "+">>
AltTok   == <<"A", "l", "t", "+">>
ShiftTok == <<"S", "h", "i", "f", "t", "+">>

COpen   == <<"C", "(", DQ>>          \* C("
AOpen   == <<"A", "(", DQ>>          \* A("
KOpen   == <<"K", "(", DQ>>          \* K("
TokClose == <<DQ, ")">>              \* ")
ShiftInfix == <<"s", "h", "i", "f", "t", "-">>

\* the formatter without the replacement of Shift+
format_key_binding_keeps_shift(kb) ==
    LET r1 == Replace(Replace(kb, CmdTok, COpen), CtrlTok, COpen)
        r2 == Replace(r1, AltTok, AOpen)
    IN  IF StartsWith(r2, COpen) /\ ~EndsWith(r2, TokClose) THEN r2 \o TokClose
        ELSE IF StartsWith(r2, AOpen) /\ ~EndsWith(r2, TokClose) THEN r2 \o TokClose
        ELSE IF ~(StartsWith(r2, COpen) \/ StartsWith(r2, AOpen))
             THEN KOpen \o Lower(r2) \o TokClose
        ELSE r2

\* _format_key_binding without the branch that closes an opened alt token
format_key_binding_no_alt_close(kb) ==
    LET r1 == Replace(Replace(kb, CmdTok, COpen), CtrlTok, COpen)
        r2 == Replace(Replace(r1, AltTok, AOpen), ShiftTok, ShiftInfix)
    IN  IF StartsWith(r2, COpen) /\ ~EndsWith(r2, TokClose) THEN r2 \o TokClose
        ELSE IF ~(StartsWith(r2, COpen) \/ StartsWith(r2, AOpen))
             THEN KOpen \o Lower(r2) \o TokClose
        ELSE r2

\* ToshyConfigGenerator._format_key_binding
_format_key_binding(kb) ==
    LET r1 == Replace(Replace(kb, CmdTok, COpen), CtrlTok, COpen)
        r2 == Replace(Replace(r1, AltTok, AOpen), ShiftTok, ShiftInfix)
    IN  IF StartsWith(r2, COpen) /\ ~EndsWith(r2, TokClose) THEN r2 \o TokClose
        ELSE IF StartsWith(r2, AOpen) /\ ~EndsWith(r2, TokClose) THEN r2 \o TokClose
        ELSE IF ~(StartsWith(r2, COpen) \/ StartsWith(r2, AOpen))
             THEN KOpen \o Lower(r2) \o TokClose
        ELSE r2

(***************************************************************************)
(* Python values of the options bundle.                                    *)
(*   dict with fixed keys : a function whose DOMAIN is the keys present    *)
(*   dict iterated in insertion order (applications, bindings,             *)
(*   globalShortcuts) : a sequence of <<key, value>> pairs, keys distinct  *)
(***************************************************************************)
EmptyDict == <<>>

\* d.get(k, default)
Get(d, k, default) == IF k \in DOMAIN d THEN d[k] ELSE default

\* str(n) for an int
DigitChar(d) == <<"0", "1", "2", "3", "4", "5", "6", "7", "8", "9">>[d + 1]

RECURSIVE NatText(_)
NatText(n) == IF n < 10 THEN <<DigitChar(n)>> ELSE NatText(n \div 10) \o <<DigitChar(n % 10)>>

IntText(n) == IF n < 0 THEN <<"-">> \o NatText(0 - n) ELSE NatText(n)

\* bool(n) for an int
TruthyInt(n) == n # 0

(***************************************************************************)
(* The template and the fixed text of the generators.                      *)
(***************************************************************************)
\* config_template, up to the GENERATION_TIME line
TemplatePreamble ==
    << "#!/usr/bin/env python3", NL, "# -*- coding: utf-8 -*-", NL, DQ, DQ,
       DQ, NL, "Toshy Configuration - Generated by NixOS", NL,
       "This file is automatically generated. Manual changes will be overwritten.",
       NL, DQ, DQ, DQ, NL, NL, "import os", NL, "import sys", NL,
       "from pathlib import Path", NL, NL, "# Import the keymapper API", NL,
       "try:", NL, "    from xwaykeyz.models import *", NL,
       "    from xwaykeyz import *", NL, "except ImportError:", NL,
       "    print(\"Error: xwaykeyz not found. Please ensure it is installed.\")",
       NL, "    sys.exit(1)", NL, NL, "# Configuration metadata", NL,
       "GENERATED_BY = \"NixOS Toshy Module\"" >>

\* config_template, after the custom_config slot
TemplateTrailer ==
    << "# Configuration validation", NL, "if __name__ == \"__main__\":", NL,
       "    print(f\"Toshy configuration loaded successfully\")", NL,
       "    print(f\"Generated by: {GENERATED_BY}\")", NL,
       "    print(f\"Generation time: {GENERATION_TIME}\")", NL >>

GenTimeOpen == <<"G", "E", "N", "E", "R", "A", "T", "I", "O", "N", "_", "T", "I", "M", "E", SP, "=", SP, DQ>>

LogLevelOpen == <<"L", "O", "G", "_", "L", "E", "V", "E", "L", SP, "=", SP, SQ>>

PriorityOpen ==
    <<"P", "R", "O", "C", "E", "S", "S", "_", "P", "R", "I", "O", "R", "I", "T", "Y", SP, "=", SP>>

AppCommentOpen ==
    <<"#", SP, "C", "o", "n", "f", "i", "g", "u", "r", "a", "t", "i", "o", "n", SP, "f", "o", "r", SP>>

KeymapOpen == <<"k", "e", "y", "m", "a", "p", "(", DQ>>      \* keymap("
KeymapTail == <<DQ, ",", SP, "{">>                            \* ", {
Indent     == <<SP, SP, SP, SP>>

LevelINFO == <<"I", "N", "F", "O">>

MacDisabledLine   == "# Mac-style keybindings disabled"
MacToggleLine     == "MAC_STYLE_ENABLED = True"
MacTableOpenLine  == "keymap(\"Mac-style Global\", {"
NoAppsLine        == "# No application-specific configurations"
AppsHeaderLine    == "# Application-specific keybinding configurations"
NoGlobalLine      == "# No global shortcuts configured"
GlobalHeaderLine  == "# Global system shortcuts"
GlobalTableOpenLine == "keymap(\"Global System\", {"
TableCloseLine    == "})"
NoCustomLine      == "# No custom configuration"
BaseHeaderLine    == "# Base configuration"
VersionLine       == "TOSHY_CONFIG_VERSION = '1.0'"
RestrictedLine    == "RESTRICTED_MODE = True"

MacTextEditingLines ==
    << "    C(\"a\"):         C(\"ctrl-a\"),        # Select all",
       "    C(\"c\"):         C(\"ctrl-c\"),        # Copy",
       "    C(\"v\"):         C(\"ctrl-v\"),        # Paste",
       "    C(\"x\"):         C(\"ctrl-x\"),        # Cut",
       "    C(\"z\"):         C(\"ctrl-z\"),        # Undo",
       "    C(\"shift-z\"):   C(\"ctrl-y\"),        # Redo",
       "    C(\"s\"):         C(\"ctrl-s\"),        # Save",
       "    C(\"o\"):         C(\"ctrl-o\"),        # Open",
       "    C(\"n\"):         C(\"ctrl-n\"),        # New",
       "    C(\"p\"):         C(\"ctrl-p\"),        # Print",
       "    C(\"f\"):         C(\"ctrl-f\"),        # Find",
       "    C(\"g\"):         C(\"ctrl-g\"),        # Find next",
       "    C(\"shift-g\"):   C(\"ctrl-shift-g\"),  # Find previous",
       "    C(\"h\"):         C(\"ctrl-h\"),        # Replace" >>

MacNavigationLines ==
    << "    C(\"left\"):      C(\"home\"),          # Beginning of line",
       "    C(\"right\"):     C(\"end\"),           # End of line",
       "    C(\"up\"):        C(\"ctrl-home\"),     # Beginning of document",
       "    C(\"down\"):      C(\"ctrl-end\"),      # End of document",
       "    C(\"shift-left\"): C(\"shift-home\"),   # Select to beginning of line",
       "    C(\"shift-right\"): C(\"shift-end\"),   # Select to end of line",
       "    C(\"shift-up\"):  C(\"ctrl-shift-home\"), # Select to beginning",
       "    C(\"shift-down\"): C(\"ctrl-shift-end\"), # Select to end" >>

MacWordNavigationLines ==
    << "    C(\"alt-left\"):  C(\"ctrl-left\"),     # Previous word",
       "    C(\"alt-right\"): C(\"ctrl-right\"),    # Next word",
       "    C(\"alt-shift-left\"): C(\"ctrl-shift-left\"),   # Select previous word",
       "    C(\"alt-shift-right\"): C(\"ctrl-shift-right\"), # Select next word" >>

MacWindowTabLines ==
    << "    C(\"w\"):         C(\"ctrl-w\"),        # Close window/tab",
       "    C(\"shift-w\"):   C(\"ctrl-shift-w\"),  # Close window",
       "    C(\"t\"):         C(\"ctrl-t\"),        # New tab",
       "    C(\"shift-t\"):   C(\"ctrl-shift-t\"),  # Reopen closed tab",
       "    C(\"tab\"):       C(\"ctrl-tab\"),      # Next tab",
       "    C(\"shift-tab\"): C(\"ctrl-shift-tab\"), # Previous tab",
       "    C(\"1\"):         C(\"ctrl-1\"),        # Switch to tab 1",
       "    C(\"2\"):         C(\"ctrl-2\"),        # Switch to tab 2",
       "    C(\"3\"):         C(\"ctrl-3\"),        # Switch to tab 3",
       "    C(\"4\"):         C(\"ctrl-4\"),        # Switch to tab 4",
       "    C(\"5\"):         C(\"ctrl-5\"),        # Switch to tab 5",
       "    C(\"6\"):         C(\"ctrl-6\"),        # Switch to tab 6",
       "    C(\"7\"):         C(\"ctrl-7\"),        # Switch to tab 7",
       "    C(\"8\"):         C(\"ctrl-8\"),        # Switch to tab 8",
       "    C(\"9\"):         C(\"ctrl-9\"),        # Switch to tab 9" >>

MacApplicationLines ==
    << "    C(\"q\"):         C(\"alt-f4\"),        # Quit application",
       "    C(\"m\"):         C(\"alt-f9\"),        # Minimize window",
       "    C(\"shift-m\"):   C(\"alt-f10\"),       # Maximize window" >>

MacSystemLines ==
    << "    C(\"space\"):     C(\"alt-f2\"),        # Application launcher",
       "    C(\"shift-space\"): C(\"alt-f1\"),      # System menu" >>

\* the groups of the static chord table: a comment line, then its entries
MacGroups ==
    << [title |-> "    # Text editing shortcuts",
        entries |-> MacTextEditingLines],
       [title |-> "    # Navigation shortcuts",
        entries |-> MacNavigationLines],
       [title |-> "    # Word navigation",
        entries |-> MacWordNavigationLines],
       [title |-> "    # Window and tab management",
        entries |-> MacWindowTabLines],
       [title |-> "    # Application shortcuts",
        entries |-> MacApplicationLines],
       [title |-> "    # System shortcuts",
        entries |-> MacSystemLines] >>

GroupText(g) ==
    <<g.title, NL>> \o Flatten([i \in 1..Len(g.entries) |-> <<g.entries[i], NL>>])

RECURSIVE JoinWith(_, _)
JoinWith(texts, sep) ==
    IF Len(texts) = 0 THEN <<>>
    ELSE IF Len(texts) = 1 THEN texts[1]
    ELSE texts[1] \o sep \o JoinWith(Tail(texts), sep)

\* the text returned by generate_mac_style_config(True)
MacStyleText ==
    << NL, "# Mac-style keybindings configuration", NL, MacToggleLine, NL, NL,
       "# Define the main keymap for Mac-style shortcuts", NL, MacTableOpenLine, NL >>
    \o JoinWith([i \in 1..Len(MacGroups) |-> GroupText(MacGroups[i])], Indent \o <<NL>>)
    \o << TableCloseLine, NL >>

\* generate_base_config without the default of the log level
generate_base_config_no_default(opts) ==
    LET log_level   == Get(Get(opts, "logging", EmptyDict), "level", LevelINFO)
        performance == Get(opts, "performance", EmptyDict)
        security    == Get(opts, "security", EmptyDict)
        c1 == IF "level" \in DOMAIN Get(opts, "logging", EmptyDict)
              THEN << <<BaseHeaderLine>>, <<VersionLine>>, LogLevelOpen \o log_level \o <<SQ>> >>
              ELSE << <<BaseHeaderLine>>, <<VersionLine>> >>
        c2 == IF "priority" \in DOMAIN performance /\ TruthyInt(performance["priority"])
              THEN Append(c1, PriorityOpen \o IntText(performance["priority"]))
              ELSE c1
        c3 == IF "restrictedMode" \in DOMAIN security /\ security["restrictedMode"]
              THEN Append(c2, <<RestrictedLine>>)
              ELSE c2
    IN  Join(c3)

\* generate_base_config that tests the presence of the priority, not its value
generate_base_config_priority_if_present(opts) ==
    LET log_level   == Get(Get(opts, "logging", EmptyDict), "level", LevelINFO)
        performance == Get(opts, "performance", EmptyDict)
        security    == Get(opts, "security", EmptyDict)
        c1 == << <<BaseHeaderLine>>, <<VersionLine>>, LogLevelOpen \o log_level \o <<SQ>> >>
        c2 == IF "priority" \in DOMAIN performance
              THEN Append(c1, PriorityOpen \o IntText(performance["priority"]))
              ELSE c1
        c3 == IF "restrictedMode" \in DOMAIN security /\ security["restrictedMode"]
              THEN Append(c2, <<RestrictedLine>>)
              ELSE c2
    IN  Join(c3)

(***************************************************************************)
(* The section generators.                                                 *)
(***************************************************************************)
\* generate_base_config without the quote that closes the log level
generate_base_config_bare_level(opts) ==
    LET log_level   == Get(Get(opts, "logging", EmptyDict), "level", LevelINFO)
        performance == Get(opts, "performance", EmptyDict)
        security    == Get(opts, "security", EmptyDict)
        c1 == << <<BaseHeaderLine>>, <<VersionLine>>, LogLevelOpen \o log_level >>
        c2 == IF "priority" \in DOMAIN performance /\ TruthyInt(performance["priority"])
              THEN Append(c1, PriorityOpen \o IntText(performance["priority"]))
              ELSE c1
        c3 == IF "restrictedMode" \in DOMAIN security /\ security["restrictedMode"]
              THEN Append(c2, <<RestrictedLine>>)
              ELSE c2
    IN  Join(c3)

\* ToshyConfigGenerator.generate_base_config
generate_base_config(opts) ==
    LET log_level   == Get(Get(opts, "logging", EmptyDict), "level", LevelINFO)
        performance == Get(opts, "performance", EmptyDict)
        security    == Get(opts, "security", EmptyDict)
        c1 == << <<BaseHeaderLine>>, <<VersionLine>>, LogLevelOpen \o log_level \o <<SQ>> >>
        c2 == IF "priority" \in DOMAIN performance /\ TruthyInt(performance["priority"])
              THEN Append(c1, PriorityOpen \o IntText(performance["priority"]))
              ELSE c1
        c3 == IF "restrictedMode" \in DOMAIN security /\ security["restrictedMode"]
              THEN Append(c2, <<RestrictedLine>>)
              ELSE c2
    IN  Join(c3)

\* generate_mac_style_config with the test of the flag left out
generate_mac_style_config_ungated(enable_mac_style) == MacStyleText

\* ToshyConfigGenerator.generate_mac_style_config
generate_mac_style_config(enable_mac_style) ==
    IF ~enable_mac_style THEN <<MacDisabledLine>> ELSE MacStyleText

\* the line emitted for one chord pair
BindingLine(pair) ==
    Indent \o _format_key_binding(pair[1]) \o <<":", SP>>
           \o _format_key_binding(pair[2]) \o <<",">>

BindingLines(bindings) == [i \in 1..Len(bindings) |-> BindingLine(bindings[i])]

\* the lines emitted for one application
AppLines(app) ==
    << <<NL>> \o AppCommentOpen \o app[1], KeymapOpen \o app[1] \o KeymapTail >>
    \o BindingLines(app[2]) \o << <<TableCloseLine>> >>

\* the sequence s in reverse order
Reverse(s) == [i \in 1..Len(s) |-> s[Len(s) + 1 - i]]

\* generate_application_configs iterating the mapping in reverse order
generate_application_configs_reversed(applications) ==
    IF Len(applications) = 0 THEN <<NoAppsLine>>
    ELSE Join(<< <<AppsHeaderLine>> >>
              \o Flatten([i \in 1..Len(applications) |-> AppLines(Reverse(applications)[i])]))

\* generate_application_configs without the line that closes a table
generate_application_configs_unclosed(applications) ==
    IF Len(applications) = 0 THEN <<NoAppsLine>>
    ELSE Join(<< <<AppsHeaderLine>> >>
              \o Flatten([i \in 1..Len(applications) |->
                             SubSeq(AppLines(applications[i]), 1,
                                    Len(AppLines(applications[i])) - 1)]))

\* ToshyConfigGenerator.generate_application_configs
generate_application_configs(applications) ==
    IF Len(applications) = 0 THEN <<NoAppsLine>>
    ELSE Join(<< <<AppsHeaderLine>> >>
              \o Flatten([i \in 1..Len(applications) |-> AppLines(applications[i])]))

\* generate_global_shortcuts without the test for an empty mapping
generate_global_shortcuts_no_placeholder(shortcuts) ==
    Join(<< <<GlobalHeaderLine>>, <<GlobalTableOpenLine>> >>
         \o BindingLines(shortcuts) \o << <<TableCloseLine>> >>)

\* ToshyConfigGenerator.generate_global_shortcuts
generate_global_shortcuts(shortcuts) ==
    IF Len(shortcuts) = 0 THEN <<NoGlobalLine>>
    ELSE Join(<< <<GlobalHeaderLine>>, <<GlobalTableOpenLine>> >>
              \o BindingLines(shortcuts) \o << <<TableCloseLine>> >>)

\* config_template.format(...)
\* the template with the global shortcuts placed before the applications
FormatTemplate_shortcuts_first(generation_time, base, mac_style, applications, shortcuts, custom) ==
    TemplatePreamble \o <<NL>> \o GenTimeOpen \o generation_time \o <<DQ, NL, NL>>
    \o base \o <<NL, NL>>
    \o mac_style \o <<NL, NL>>
    \o shortcuts \o <<NL, NL>>
    \o applications \o <<NL, NL>>
    \o custom \o <<NL, NL>>
    \o TemplateTrailer

FormatTemplate(generation_time, base, mac_style, applications, shortcuts, custom) ==
    TemplatePreamble \o <<NL>> \o GenTimeOpen \o generation_time \o <<DQ, NL, NL>>
    \o base \o <<NL, NL>>
    \o mac_style \o <<NL, NL>>
    \o applications \o <<NL, NL>>
    \o shortcuts \o <<NL, NL>>
    \o custom \o <<NL, NL>>
    \o TemplateTrailer

\* fragments whose applications are generated only with macStyle on
Fragments_apps_need_mac_style(opts) ==
    LET keybindings == Get(opts, "keybindings", EmptyDict)
        mac_style   == Get(keybindings, "macStyle", FALSE)
    IN  [ base_config         |-> generate_base_config(opts),
          mac_style_config    |-> generate_mac_style_config(mac_style),
          application_configs |-> generate_application_configs(
                                      IF mac_style THEN Get(keybindings, "applications", EmptyDict)
                                      ELSE EmptyDict),
          global_shortcuts    |-> generate_global_shortcuts(
                                      Get(keybindings, "globalShortcuts", EmptyDict)) ]

\* the section fragments computed by generate_config
Fragments(opts) ==
    LET keybindings == Get(opts, "keybindings", EmptyDict)
    IN  [ base_config         |-> generate_base_config(opts),
          mac_style_config    |-> generate_mac_style_config(Get(keybindings, "macStyle", FALSE)),
          application_configs |-> generate_application_configs(
                                      Get(keybindings, "applications", EmptyDict)),
          global_shortcuts    |-> generate_global_shortcuts(
                                      Get(keybindings, "globalShortcuts", EmptyDict)) ]

\* ToshyConfigGenerator.generate_config
generate_config(opts, custom, generation_time) ==
    LET f == Fragments(opts)
    IN  FormatTemplate(generation_time, f.base_config, f.mac_style_config,
                       f.application_configs, f.global_shortcuts,
                       IF Len(custom) # 0 THEN custom ELSE <<NoCustomLine>>)

(***************************************************************************)
(* compile(text, '<generated_config>', 'exec'): the syntax check of the    *)
(* interpreter, on the part of the language the generated text can reach.  *)
(* A lexer turns the symbols into tokens, a parser accepts the token       *)
(* sequence.  Fixed lines are classified once, here.                       *)
(***************************************************************************)
Range(f) == {f[i] : i \in DOMAIN f}

MacEntryLines == UNION {Range(MacGroups[i].entries) : i \in 1..Len(MacGroups)}

\* fixed lines that are comments
CommentLines ==
    { "#!/usr/bin/env python3", "# -*- coding: utf-8 -*-", "# Import the keymapper API",
      "# Configuration metadata", "# Configuration validation",
      "# Mac-style keybindings configuration",
      "# Define the main keymap for Mac-style shortcuts",
      MacDisabledLine, NoAppsLine, AppsHeaderLine, NoGlobalLine, GlobalHeaderLine,
      NoCustomLine, BaseHeaderLine, "# Custom user configuration" }
    \cup {MacGroups[i].title : i \in 1..Len(MacGroups)}

\* fixed lines that are statements (or lines of a compound statement)
StmtLines ==
    { "import os", "import sys", "from pathlib import Path", "try:",
      "    from xwaykeyz.models import *", "    from xwaykeyz import *",
      "except ImportError:",
      "    print(\"Error: xwaykeyz not found. Please ensure it is installed.\")",
      "    sys.exit(1)", "GENERATED_BY = \"NixOS Toshy Module\"",
      "if __name__ == \"__main__\":",
      "    print(f\"Toshy configuration loaded successfully\")",
      "    print(f\"Generated by: {GENERATED_BY}\")",
      "    print(f\"Generation time: {GENERATION_TIME}\")",
      MacToggleLine, VersionLine, RestrictedLine,
      "SETTING = True", "CUSTOM_SETTING = True" }

\* fixed lines that open a table: keymap("...", {
TableOpenLines == {MacTableOpenLine, GlobalTableOpenLine}

\* lines of words that are not a statement
WordLines ==
    { "Toshy Configuration - Generated by NixOS",
      "This file is automatically generated. Manual changes will be overwritten.",
      "INVALID SYNTAX HERE" }

Letters ==
    { "a", "b", "c", "d", "e", "f", "g", "h", "i", "j", "k", "l", "m", "n", "o", "p", "q",
      "r", "s", "t", "u", "v", "w", "x", "y", "z", "A", "B", "C", "D", "E", "F", "G", "H",
      "I", "J", "K", "L", "M", "N", "O", "P", "Q", "R", "S", "T", "U", "V", "W", "X", "Y",
      "Z", "_" }

Digits == {"0", "1", "2", "3", "4", "5", "6", "7", "8", "9"}

StringPrefixes == {"r", "R", "u", "U", "b", "B", "f", "F"}

Openers == {"(", "{"}
Closers == {")", "}"}
Operators == {":", ",", "=", "-", "+", "."}

LexError == <<"ERROR">>

LettersDigits == Letters \cup Digits
Quotes == {DQ, SQ}

(* The lexer is a state machine over the symbols: mode is where it stands   *)
(* ("code", inside a "name", a "number", a "string", a "triple" quoted      *)
(* string or a "comment", or "error"), q the quote that closes the string,  *)
(* depth the number of open brackets, skip the symbols still to pass over,  *)
(* lead0 whether the number began with 0, toks the tokens so far.           *)
LexStart == [mode |-> "code", q |-> DQ, depth |-> 0, skip |-> 0, lead0 |-> FALSE, toks |-> <<>>]

LexFail(st) == [st EXCEPT !.mode = "error"]

Emit(st, tok) == [st EXCEPT !.mode = "code", !.toks = Append(st.toks, tok)]

IsTriple(s, i) == i + 2 <= Len(s) /\ s[i + 1] = s[i] /\ s[i + 2] = s[i]

\* the symbol s[i] met between tokens
LexCode(st, s, i) ==
    LET c == s[i] IN
    CASE c = NL -> IF st.depth = 0 THEN Emit(st, "NEWLINE") ELSE [st EXCEPT !.mode = "code"]
      [] c = SP -> [st EXCEPT !.mode = "code"]
      [] c = "#" -> [st EXCEPT !.mode = "comment"]
      [] c \in Quotes ->
           IF IsTriple(s, i)
           THEN [Emit(st, "STRING") EXCEPT !.mode = "triple", !.q = c, !.skip = 2]
           ELSE [Emit(st, "STRING") EXCEPT !.mode = "string", !.q = c]
      [] c \in Letters ->
           IF c \in StringPrefixes /\ i < Len(s) /\ s[i + 1] \in Quotes
           THEN [st EXCEPT !.mode = "code"]
           ELSE [Emit(st, "NAME") EXCEPT !.mode = "name"]
      [] c \in Digits -> [Emit(st, "NUMBER") EXCEPT !.mode = "number", !.lead0 = (c = "0")]
      [] c \in Openers -> [Emit(st, c) EXCEPT !.depth = st.depth + 1]
      [] c \in Closers ->
           IF st.depth = 0 THEN LexFail(st) ELSE [Emit(st, c) EXCEPT !.depth = st.depth - 1]
      [] c \in Operators -> Emit(st, c)
      [] c \in CommentLines -> [st EXCEPT !.mode = "code"]
      [] c \in StmtLines -> Emit(st, "STATEMENT")
      [] c \in WordLines -> Emit(st, "WORDS")
      [] c \in MacEntryLines -> Emit(st, "ENTRY")
      [] c \in TableOpenLines ->
           [st EXCEPT !.mode = "code", !.depth = st.depth + 2,
                      !.toks = st.toks \o <<"NAME", "(", "STRING", ",", "{">>]
      [] c = TableCloseLine ->
           IF st.depth < 2 THEN LexFail(st)
           ELSE [st EXCEPT !.mode = "code", !.depth = st.depth - 2,
                           !.toks = st.toks \o <<"}", ")">>]
      [] OTHER -> LexFail(st)

\* one step of the lexer, on the symbol s[i]
LexStep(st, s, i) ==
    LET c == s[i] IN
    IF st.mode = "error" THEN st
    ELSE IF st.skip > 0 THEN [st EXCEPT !.skip = st.skip - 1]
    ELSE CASE st.mode = "code" -> LexCode(st, s, i)
           [] st.mode = "comment" -> IF c = NL THEN LexCode(st, s, i) ELSE st
           [] st.mode = "string" ->
                IF c = NL THEN LexFail(st)
                ELSE IF c = st.q THEN [st EXCEPT !.mode = "code"]
                ELSE IF c = "\\" THEN [st EXCEPT !.skip = 1]
                ELSE st
           [] st.mode = "triple" ->
                IF c = st.q /\ IsTriple(s, i) THEN [st EXCEPT !.mode = "code", !.skip = 2]
                ELSE IF c = "\\" THEN [st EXCEPT !.skip = 1]
                ELSE st
           [] st.mode = "name" -> IF c \in LettersDigits THEN st ELSE LexCode(st, s, i)
           [] st.mode = "number" ->
                IF c \in Digits THEN (IF st.lead0 /\ c # "0" THEN LexFail(st) ELSE st)
                ELSE IF c \in Letters THEN LexFail(st)
                ELSE LexCode(st, s, i)

\* the lexer run over s[lo..hi] from state st; the range is halved, and the
\* first half is run before the second, so that the evaluation does not
\* nest once per symbol; an error state stays an error state
RECURSIVE LexRange(_, _, _, _)
LexRange(st, s, lo, hi) ==
    IF lo > hi THEN st
    ELSE IF lo = hi THEN LexStep(st, s, lo)
    ELSE LET mid  == (lo + hi) \div 2
             left == LexRange(st, s, lo, mid)
         IN  IF left.mode = "error" THEN left ELSE LexRange(left, s, mid + 1, hi)

\* the tokens of the text, or LexError
Lex(s) ==
    LET st == LexRange(LexStart, s, 1, Len(s))
    IN  IF st.mode \in {"error", "string", "triple"} \/ st.depth > 0 \/ st.skip > 0
        THEN LexError
        ELSE Append(st.toks, "NEWLINE")

Tok(t, i) == IF i <= Len(t) THEN t[i] ELSE "EOF"

\* the position after the run of ENTRY tokens that starts at i
SkipEntries(t, i) ==
    CHOOSE j \in i..(Len(t) + 1) :
        Tok(t, j) # "ENTRY" /\ \A k \in i..(j - 1) : t[k] = "ENTRY"

(* The parser.  Each operator takes the tokens and a position and returns  *)
(* the position after the construct, or 0 when there is no such construct. *)
RECURSIVE ParseExpr(_, _), ParseAtom(_, _), ParseTrailers(_, _), ParseArgs(_, _),
          ParseDisplay(_, _, _), ParseStrings(_, _)

ParseStrings(t, i) == IF Tok(t, i) = "STRING" THEN ParseStrings(t, i + 1) ELSE i

\* a parenthesised list or an argument list, after the "("
ParseArgs(t, i) ==
    IF Tok(t, i) = ")" THEN i + 1
    ELSE LET e == ParseExpr(t, i)
         IN  IF e = 0 THEN 0
             ELSE IF Tok(t, e) = "," THEN ParseArgs(t, e + 1)
             ELSE IF Tok(t, e) = ")" THEN e + 1
             ELSE 0

\* a dict or set display, after the "{"; kind is "any", "dict" or "set"
ParseDisplay(t, i, kind) ==
    IF Tok(t, i) = "}" THEN i + 1
    ELSE IF Tok(t, i) = "ENTRY"
         THEN (IF kind = "set" THEN 0 ELSE ParseDisplay(t, SkipEntries(t, i), "dict"))
    ELSE LET k == ParseExpr(t, i)
         IN  IF k = 0 THEN 0
             ELSE IF Tok(t, k) = ":" /\ kind # "set"
                  THEN LET v == ParseExpr(t, k + 1)
                       IN  IF v = 0 THEN 0
                           ELSE IF Tok(t, v) = "," THEN ParseDisplay(t, v + 1, "dict")
                           ELSE IF Tok(t, v) = "}" THEN v + 1
                           ELSE 0
             ELSE IF kind = "dict" THEN 0
             ELSE IF Tok(t, k) = "," /\ Tok(t, k + 1) # "}" THEN ParseDisplay(t, k + 1, "set")
             ELSE IF Tok(t, k) = "," THEN k + 2
             ELSE IF Tok(t, k) = "}" THEN k + 1
             ELSE 0

ParseAtom(t, i) ==
    CASE Tok(t, i) \in {"NAME", "NUMBER"} -> i + 1
      [] Tok(t, i) = "STRING" -> ParseStrings(t, i)
      [] Tok(t, i) = "(" -> ParseArgs(t, i + 1)
      [] Tok(t, i) = "{" -> ParseDisplay(t, i + 1, "any")
      [] OTHER -> 0

\* calls and attribute references after an atom
ParseTrailers(t, i) ==
    IF Tok(t, i) = "("
    THEN LET e == ParseArgs(t, i + 1) IN IF e = 0 THEN 0 ELSE ParseTrailers(t, e)
    ELSE IF Tok(t, i) = "." /\ Tok(t, i + 1) = "NAME" THEN ParseTrailers(t, i + 2)
    ELSE IF Tok(t, i) = "." THEN 0
    ELSE i

ParseExpr(t, i) ==
    IF Tok(t, i) \in {"-", "+"} THEN ParseExpr(t, i + 1)
    ELSE LET a == ParseAtom(t, i)
             e == IF a = 0 THEN 0 ELSE ParseTrailers(t, a)
         IN  IF e = 0 THEN 0
             ELSE IF Tok(t, e) \in {"-", "+"} THEN ParseExpr(t, e + 1)
             ELSE e

\* an expression statement or an assignment to names, up to the end of line
RECURSIVE ParseAssign(_, _, _)
ParseAssign(t, i, e) ==
    IF Tok(t, e) = "NEWLINE" THEN e + 1
    ELSE IF Tok(t, e) = "=" /\ e = i + 1 /\ Tok(t, i) = "NAME"
         THEN LET r == ParseExpr(t, e + 1)
              IN  IF r = 0 THEN 0 ELSE ParseAssign(t, e + 1, r)
    ELSE 0

ParseStatement(t, i) ==
    LET e == ParseExpr(t, i) IN IF e = 0 THEN 0 ELSE ParseAssign(t, i, e)

\* the logical line that ends at the NEWLINE token at position e starts here
LineStart(t, e) ==
    LET before == {j \in 1..(e - 1) : t[j] = "NEWLINE"}
    IN  IF before = {} THEN 1 ELSE 1 + CHOOSE j \in before : \A k \in before : k <= j

\* the logical line t[i..e], e the position of its NEWLINE, is a statement
LineOk(t, i, e) ==
    \/ i = e
    \/ Tok(t, i) = "STATEMENT" /\ e = i + 1
    \/ Tok(t, i) # "STATEMENT" /\ ParseStatement(t, i) = e + 1

\* the whole token sequence is a sequence of statements, one per logical line
ParseFile(t) ==
    \A e \in {j \in 1..Len(t) : t[j] = "NEWLINE"} : LineOk(t, LineStart(t, e), e)

\* a character that UTF-8 cannot encode: a lone surrogate, "\ud800" in JSON
LoneSurrogate == "U+D800"

\* text.encode('utf-8') raises UnicodeEncodeError
Unencodable(text) == \E i \in 1..Len(text) : text[i] = LoneSurrogate

UnicodeEncodeErrorText == <<"'utf-8' codec can't encode character '\\ud800': surrogates not allowed">>

\* compile(text, ...): "ok", or the exception it raises
Compile(text) ==
    LET t == Lex(text)
    IN  IF Unencodable(text) THEN "UnicodeEncodeError"
        ELSE IF t = LexError THEN "SyntaxError"
        ELSE IF ParseFile(t) THEN "ok"
        ELSE "SyntaxError"

\* ToshyConfigGenerator.validate_config: the returned value
validate_config(text) == Compile(text) = "ok"

(***************************************************************************)
(* The inputs.                                                             *)
(***************************************************************************)
MaxParts    == 3     \* parts (modifier tokens, key names) of a chord
MaxApps     == 2     \* applications of a bundle
MaxBindings == 2     \* chord pairs of one application or of globalShortcuts

\* all sequences over S of length at most n
SeqsUpTo(S, n) == UNION {[1..k -> S] : k \in 0..n}

\* the sequences of pairs of P with distinct first components: dicts in order
DictsUpTo(P, n) ==
    {d \in SeqsUpTo(P, n) : \A i, j \in 1..Len(d) : i # j => d[i][1] # d[j][1]}

KeyNames  == {<<"T">>, <<"F", "2">>, <<")">>, <<DQ>>}
Modifiers == {CmdTok, CtrlTok, AltTok, ShiftTok}

\* the chords given to the formatter: up to MaxParts parts
Chords == {Flatten(p) : p \in SeqsUpTo(Modifiers \cup KeyNames, MaxParts)}

CtrlT      == CtrlTok \o <<"T">>
CmdP       == CmdTok \o <<"P">>
CtrlShiftP == CtrlTok \o ShiftTok \o <<"P">>
ShiftCmdT  == ShiftTok \o CmdTok \o <<"T">>

\* chord pairs of the bundles: a pair of the tests, a pair of plain key names,
\* and a pair whose source chord has Shift before Cmd
BindingPairs == { <<CmdP, CtrlShiftP>>, <<<<"T">>, <<"F", "2">>>>, <<ShiftCmdT, CtrlT>> }

AppNames == { <<"F", "x">>, <<"V", "S">>, <<"a", DQ>> }

LevelDEBUG == <<"D", "E", "B", "U", "G">>
LevelQuote == <<"i", "t", SQ, "s">>

Times == { <<"2", "0", "2", "4", "-", "0", "1", "-", "0", "1", "T", "0", "0", ":", "0", "0",
             ":", "0", "0">>,
           <<"2", "0", "2", "4", "-", "0", "6", "-", "3", "0", "T", "2", "3", ":", "5", "9",
             ":", "5", "9", ".", "5">> }

CustomValid   == <<"# Custom user configuration", NL, "CUSTOM_SETTING = True">>
CustomInvalid == <<"SETTING = True", NL, "INVALID SYNTAX HERE">>
Customs == {<<>>, CustomValid, CustomInvalid}

\* either no key k, or key k with a value of V
Opt(k, V) == {EmptyDict} \cup {k :> v : v \in V}

LoggingDicts     == Opt("level", {LevelDEBUG, LevelQuote})
PerformanceDicts == Opt("priority", {0 - 5, 0, 10})
SecurityDicts    == Opt("restrictedMode", BOOLEAN)

BindingDicts == DictsUpTo(BindingPairs, MaxBindings)
AppDicts     == DictsUpTo(AppNames \X BindingDicts, MaxApps)

\* the keybindings parts: every applications mapping on its own, and every
\* combination of macStyle, at most one application and globalShortcuts
KeybindingsDicts ==
    Opt("applications", AppDicts)
    \cup { m @@ a @@ g : m \in Opt("macStyle", BOOLEAN),
                         a \in Opt("applications", DictsUpTo(AppNames \X BindingDicts, 1)),
                         g \in Opt("globalShortcuts", BindingDicts) }

BaseBundles ==
    { l @@ p @@ s : l \in Opt("logging", LoggingDicts),
                    p \in Opt("performance", PerformanceDicts),
                    s \in Opt("security", SecurityDicts) }

\* the bundle of test_complete_config_generation, up to the bounds
TestKeybindings ==
    ("macStyle" :> TRUE) @@ ("applications" :> << <<<<"F", "x">>, << <<CmdP, CtrlShiftP>> >> >> >>)
    @@ ("globalShortcuts" :> << <<CmdP, CtrlT>> >>)

TestBase ==
    ("logging" :> ("level" :> LevelDEBUG)) @@ ("performance" :> ("priority" :> 0 - 5))
    @@ ("security" :> ("restrictedMode" :> TRUE))

\* the inputs of generate_config: every base part and custom text with few
\* keybindings parts, and every keybindings part with few base parts
GeneratorInputs ==
    { <<b @@ k, c>> : b \in BaseBundles, c \in Customs,
                      k \in Opt("keybindings", {EmptyDict, TestKeybindings}) }
    \cup { <<b @@ ("keybindings" :> k), <<>> >> : b \in {EmptyDict, TestBase},
                                                  k \in KeybindingsDicts }

(***************************************************************************)
(* The formatter, called on a chord.                                       *)
(***************************************************************************)
FmtIdle == key_binding = <<>> /\ formatted = <<>> /\ fpc = "idle"

NoFragments ==
    [base_config |-> <<>>, mac_style_config |-> <<>>, application_configs |-> <<>>,
     global_shortcuts |-> <<>>]

GenIdle ==
    /\ options = EmptyDict
    /\ custom_config = <<>>
    /\ fragments = NoFragments
    /\ config_content = <<>>
    /\ valid = FALSE
    /\ gpc = "idle"

NoResult == [kind |-> "none", code |-> 0, exc |-> ""]

NoFailure == [step |-> "none", text |-> <<>>]

MainIdle ==
    /\ args = [validate |-> FALSE, output |-> <<>>]
    /\ env = [options_file |-> [kind |-> "missing", value |-> EmptyDict],
              custom_file |-> [kind |-> "none", text |-> <<>>], disk_full |-> FALSE]
    /\ fs = [dirs |-> {<<>>}, files |-> {}, readonly |-> {}]
    /\ written = <<>>
    /\ printed = <<>>
    /\ steps = <<>>
    /\ failure = NoFailure
    /\ result = NoResult
    /\ mpc = "idle"

\* daemon.find_config_file: the standard locations, in the order checked
UserConfig    == "~/.config/toshy/toshy_config.py"
BundledConfig == "<package>/../default-toshy-config/toshy_config.py"
SystemConfig  == "/etc/toshy/toshy_config.py"
config_locations == <<UserConfig, BundledConfig, SystemConfig>>

\* the value None
None == "None"

DaemonIdle ==
    /\ location_kind = [i \in DOMAIN config_locations |-> "missing"]
    /\ location_index = 1
    /\ config_path = None
    /\ dpc = "idle"

InitFormatter ==
    /\ key_binding \in Chords
    /\ formatted = <<>>
    /\ fpc = "call"
    /\ GenIdle
    /\ MainIdle
    /\ DaemonIdle
    /\ LaterIdleExcept("")

\* a call of _format_key_binding(key_binding)
FormatKeyBinding ==
    /\ fpc = "call"
    /\ formatted' = _format_key_binding(key_binding)
    /\ fpc' = "done"
    /\ UNCHANGED <<key_binding, genVars, mainVars, daemonVars, laterVars>>

NextFormatter == FormatKeyBinding

SpecFormatter == InitFormatter /\ [][NextFormatter]_vars

(***************************************************************************)
(* The generator: generate_config, then validate_config on its result.     *)
(***************************************************************************)
InitGenerator ==
    /\ \E input \in GeneratorInputs : options = input[1] /\ custom_config = input[2]
    /\ fragments = NoFragments
    /\ config_content = <<>>
    /\ valid = FALSE
    /\ gpc = "call"
    /\ FmtIdle
    /\ MainIdle
    /\ DaemonIdle
    /\ LaterIdleExcept("")

\* a call of generate_config(options, custom_config), at one of the times
GenerateConfig ==
    /\ gpc = "call"
    /\ \E generation_time \in Times :
          config_content' = generate_config(options, custom_config, generation_time)
    /\ fragments' = Fragments(options)
    /\ gpc' = "generated"
    /\ UNCHANGED <<options, custom_config, valid, fmtVars, mainVars, daemonVars, laterVars>>

\* a validate_config that reports success without compiling
ValidateConfig_always_true ==
    /\ gpc = "generated"
    /\ valid' = TRUE
    /\ gpc' = "validated"
    /\ UNCHANGED <<options, custom_config, fragments, config_content, fmtVars, mainVars, daemonVars, laterVars>>

\* a call of validate_config(config_content) that returns
ValidateConfig ==
    /\ gpc = "generated"
    /\ Compile(config_content) \in {"ok", "SyntaxError"}
    /\ valid' = validate_config(config_content)
    /\ gpc' = "validated"
    /\ UNCHANGED <<options, custom_config, fragments, config_content, fmtVars, mainVars, daemonVars, laterVars>>

NextGenerator == GenerateConfig \/ ValidateConfig

SpecGenerator == InitGenerator /\ [][NextGenerator]_vars

(***************************************************************************)
(* The command-line driver, main().                                        *)
(*                                                                         *)
(* A path of the output is a sequence of names below the working           *)
(* directory; <<>> is the working directory itself.  The file system is    *)
(* the set of directories, the set of files and the set of directories     *)
(* and files that may not be written.                                      *)
(***************************************************************************)
\* a JSON document that is not an object: json.load returns a list
JsonArray == [json_type |-> "array"]

\* the value has the dict method get
IsMapping(v) == "json_type" \notin DOMAIN v

\* os.path.dirname of a path
DirName(p) == SubSeq(p, 1, Len(p) - 1)

\* the path as text, names separated by /
PathText(p) == JoinWith([i \in 1..Len(p) |-> <<p[i]>>], <<"/">>)

\* the non-empty prefixes of a path, the path included
Prefixes(p) == {SubSeq(p, 1, k) : k \in 1..Len(p)}

ENOENT  == "[Errno 2] No such file or directory"
EACCES  == "[Errno 13] Permission denied"
EEXIST  == "[Errno 17] File exists"
ENOTDIR == "[Errno 20] Not a directory"
EISDIR  == "[Errno 21] Is a directory"
ENOSPC  == "[Errno 28] No space left on device"

\* str(e) of an OSError with a file name
OSErrorText(errno, pathText) == <<errno, ":", SP, SQ>> \o pathText \o <<SQ>>

JSONDecodeErrorText == <<"Expecting property name enclosed in double quotes: line 1 column 2 (char 1)">>
AttributeErrorText  == <<"'list' object has no attribute 'get'">>
SyntaxErrorText     == <<"invalid syntax (<generated_config>, line N)">>

NoError == <<>>

\* the first prefix of d that is not a directory
FirstMissing(fsys, d) ==
    CHOOSE q \in Prefixes(d) :
        /\ q \notin fsys.dirs
        /\ \A r \in Prefixes(d) : Len(r) < Len(q) => r \in fsys.dirs

\* os.makedirs(d, exist_ok=True): the text of the OSError raised, or NoError
MakeDirsError(fsys, d) ==
    IF d = <<>> THEN OSErrorText(ENOENT, <<>>)
    ELSE IF d \in fsys.dirs THEN NoError
    ELSE LET q == FirstMissing(fsys, d)
         IN  IF q \in fsys.files /\ q = d THEN OSErrorText(EEXIST, PathText(q))
             ELSE IF q \in fsys.files THEN OSErrorText(ENOTDIR, PathText(SubSeq(d, 1, Len(q) + 1)))
             ELSE IF DirName(q) \in fsys.readonly THEN OSErrorText(EACCES, PathText(q))
             ELSE NoError

\* os.makedirs(d, exist_ok=True): the file system after a call that succeeds
MakeDirs(fsys, d) == [fsys EXCEPT !.dirs = fsys.dirs \cup Prefixes(d)]

\* open(p, 'w'): the text of the OSError raised, or NoError
OpenWriteError(fsys, p) ==
    IF p \in fsys.dirs THEN OSErrorText(EISDIR, PathText(p))
    ELSE IF p \in fsys.files
         THEN (IF p \in fsys.readonly THEN OSErrorText(EACCES, PathText(p)) ELSE NoError)
    ELSE IF DirName(p) \in fsys.readonly THEN OSErrorText(EACCES, PathText(p))
    ELSE NoError

\* open(p, 'w'): the file system after a call that succeeds
OpenWrite(fsys, p) == [fsys EXCEPT !.files = fsys.files \cup {p}]

\* open(path, 'r') of the options file or of the custom file: the text of
\* the OSError raised, or NoError
OpenReadError(file, pathText) ==
    CASE file.kind = "missing"   -> OSErrorText(ENOENT, pathText)
      [] file.kind = "directory" -> OSErrorText(EISDIR, pathText)
      [] file.kind = "denied"    -> OSErrorText(EACCES, pathText)
      [] OTHER -> NoError

OptionsLoadMsg   == "Error loading options: "
ValidationFailedMsg == "Configuration validation failed: "
ValidationPassedMsg == "Configuration validation passed"
GeneratedMsg     == "Configuration generated: "
WriteErrorMsg    == "Error writing configuration: "

Return(code)  == [kind |-> "return", code |-> code, exc |-> ""]
Raise(exc)    == [kind |-> "raise", code |-> 0, exc |-> exc]

(* The inputs of main: the arguments and the environment they name.        *)
OptionsPath == <<"o", ".", "j", "s", "o", "n">>
CustomPath  == <<"c", ".", "p", "y">>
OutputPaths == { <<"f">>, <<"d", "f">>, <<"d", "e", "f">> }

QuoteLevelBundle == "logging" :> ("level" :> LevelQuote)

\* a bundle whose log level is the JSON string "\ud800"
SurrogateLevelBundle == "logging" :> ("level" :> <<LoneSurrogate>>)

\* what the --options path names
OptionsFiles ==
    { [kind |-> k, value |-> EmptyDict] : k \in {"missing", "directory", "denied", "notjson"} }
    \cup { [kind |-> "json", value |-> v] :
             v \in {JsonArray, EmptyDict, TestBase @@ ("keybindings" :> TestKeybindings),
                    QuoteLevelBundle, SurrogateLevelBundle} }

\* what the --custom-config path names; "none" when the flag is not given
CustomFiles ==
    { [kind |-> k, text |-> <<>>] : k \in {"none", "missing", "directory", "denied"} }
    \cup { [kind |-> "file", text |-> t] : t \in Customs }

\* the file systems main may start in
FileSystems ==
    { [dirs |-> ds \cup {<<>>}, files |-> fl, readonly |-> ro] :
        ds \in {{}, {<<"d">>}, {<<"d">>, <<"d", "e">>}},
        fl \in {{}, {<<"d">>}, {<<"f">>}, {<<"d", "e", "f">>}},
        ro \in {{}, {<<>>}, {<<"d">>}, {<<"d", "e", "f">>}} }

\* a file has a parent directory and is not a directory
WellFormed(fsys) ==
    /\ fsys.files \cap fsys.dirs = {}
    /\ \A p \in fsys.files : DirName(p) \in fsys.dirs
    /\ fsys.readonly \subseteq fsys.dirs \cup fsys.files

InitMain ==
    /\ args \in [validate : BOOLEAN, output : OutputPaths]
    /\ env \in [options_file : OptionsFiles, custom_file : CustomFiles, disk_full : BOOLEAN]
    /\ fs \in {f \in FileSystems : WellFormed(f)}
    /\ written = <<>>
    /\ printed = <<>>
    /\ steps = <<>>
    /\ failure = NoFailure
    /\ result = NoResult
    /\ mpc = "load"
    /\ options = EmptyDict
    /\ custom_config = <<>>
    /\ fragments = NoFragments
    /\ config_content = <<>>
    /\ valid = FALSE
    /\ gpc = "idle"
    /\ FmtIdle
    /\ DaemonIdle
    /\ LaterIdleExcept("")

\* main returns 1 after printing msg; the failure of step is recorded
FailWith(step, msg, text) ==
    /\ printed' = Append(printed, <<msg>> \o text)
    /\ failure' = [step |-> step, text |-> text]
    /\ result' = Return(1)
    /\ mpc' = "done"

\* an exception leaves main
RaiseFrom(step, exc, text) ==
    /\ failure' = [step |-> step, text |-> text]
    /\ result' = Raise(exc)
    /\ mpc' = "done"

\* main, lines 267-273, with a handler that prints the error and goes on
MainLoad_goes_on ==
    /\ mpc = "load"
    /\ steps' = Append(steps, "load")
    /\ LET file == env.options_file
           err  == OpenReadError(file, OptionsPath)
       IN  IF err # NoError
           THEN /\ printed' = Append(printed, <<OptionsLoadMsg>> \o err)
                /\ failure' = [step |-> "load", text |-> err]
                /\ mpc' = "custom"
                /\ UNCHANGED <<options, result>>
           ELSE IF file.kind = "notjson"
           THEN FailWith("load", OptionsLoadMsg, JSONDecodeErrorText) /\ UNCHANGED options
           ELSE /\ options' = file.value
                /\ mpc' = "custom"
                /\ UNCHANGED <<printed, failure, result>>
    /\ UNCHANGED <<args, env, fs, written, custom_config, fragments, config_content,
                   valid, gpc, fmtVars, daemonVars, laterVars>>

\* main, lines 267-273: load the options from the JSON file
MainLoad ==
    /\ mpc = "load"
    /\ steps' = Append(steps, "load")
    /\ LET file == env.options_file
           err  == OpenReadError(file, OptionsPath)
       IN  IF err # NoError
           THEN FailWith("load", OptionsLoadMsg, err) /\ UNCHANGED options
           ELSE IF file.kind = "notjson"
           THEN FailWith("load", OptionsLoadMsg, JSONDecodeErrorText) /\ UNCHANGED options
           ELSE /\ options' = file.value
                /\ mpc' = "custom"
                /\ UNCHANGED <<printed, failure, result>>
    /\ UNCHANGED <<args, env, fs, written, custom_config, fragments, config_content,
                   valid, gpc, fmtVars, daemonVars, laterVars>>

\* main, lines 275-279: read the custom configuration when the flag is given
\* and the path exists
MainCustom ==
    /\ mpc = "custom"
    /\ steps' = Append(steps, "custom")
    /\ LET file == env.custom_file
           err  == OpenReadError(file, CustomPath)
       IN  IF file.kind \in {"none", "missing"}
           THEN custom_config' = <<>> /\ mpc' = "generate" /\ UNCHANGED <<failure, result>>
           ELSE IF err # NoError
           THEN RaiseFrom("custom", "OSError", err) /\ UNCHANGED custom_config
           ELSE /\ custom_config' = file.text
                /\ mpc' = "generate"
                /\ UNCHANGED <<failure, result>>
    /\ UNCHANGED <<args, env, fs, written, printed, options, fragments, config_content,
                   valid, gpc, fmtVars, daemonVars, laterVars>>

\* main, lines 281-286: generate the configuration
MainGenerate ==
    /\ mpc = "generate"
    /\ steps' = Append(steps, "assemble")
    /\ IF ~IsMapping(options)
       THEN /\ RaiseFrom("assemble", "AttributeError", AttributeErrorText)
            /\ UNCHANGED <<config_content, fragments>>
       ELSE /\ \E generation_time \in Times :
                  config_content' = generate_config(options, custom_config, generation_time)
            /\ fragments' = Fragments(options)
            /\ mpc' = IF args.validate THEN "validate" ELSE "write"
            /\ UNCHANGED <<failure, result>>
    /\ UNCHANGED <<args, env, fs, written, printed, options, custom_config, valid, gpc,
                   fmtVars, daemonVars, laterVars>>

\* main, lines 286-289, with a validation whose failure does not return
MainValidate_no_return ==
    /\ mpc = "validate"
    /\ steps' = Append(steps, "validate")
    /\ Compile(config_content) \in {"ok", "SyntaxError"}
    /\ valid' = validate_config(config_content)
    /\ IF ~validate_config(config_content)
       THEN /\ printed' = Append(printed, <<ValidationFailedMsg>> \o SyntaxErrorText)
            /\ failure' = [step |-> "validate", text |-> SyntaxErrorText]
            /\ mpc' = "write"
            /\ UNCHANGED result
       ELSE /\ printed' = Append(printed, <<ValidationPassedMsg>>)
            /\ mpc' = "write"
            /\ UNCHANGED <<failure, result>>
    /\ UNCHANGED <<args, env, fs, written, options, custom_config, fragments,
                   config_content, gpc, fmtVars, daemonVars, laterVars>>

\* main, lines 286-289: validate when --validate is given; an exception of
\* compile that is no SyntaxError leaves validate_config and main
MainValidate ==
    /\ mpc = "validate"
    /\ steps' = Append(steps, "validate")
    /\ IF Compile(config_content) \notin {"ok", "SyntaxError"}
       THEN /\ RaiseFrom("validate", Compile(config_content), UnicodeEncodeErrorText)
            /\ UNCHANGED <<valid, printed>>
       ELSE /\ valid' = validate_config(config_content)
            /\ IF ~validate_config(config_content)
               THEN FailWith("validate", ValidationFailedMsg, SyntaxErrorText)
               ELSE /\ printed' = Append(printed, <<ValidationPassedMsg>>)
                    /\ mpc' = "write"
                    /\ UNCHANGED <<failure, result>>
    /\ UNCHANGED <<args, env, fs, written, options, custom_config, fragments,
                   config_content, gpc, fmtVars, daemonVars, laterVars>>

\* main, lines 291-300: create the directories and write the output file
MainWrite ==
    /\ mpc = "write"
    /\ steps' = Append(steps, "write")
    /\ LET d    == DirName(args.output)
           merr == MakeDirsError(fs, d)
           fs1  == MakeDirs(fs, d)
           oerr == OpenWriteError(fs1, args.output)
       IN  IF merr # NoError
           THEN FailWith("write", WriteErrorMsg, merr) /\ UNCHANGED <<fs, written>>
           ELSE IF oerr # NoError
           THEN FailWith("write", WriteErrorMsg, oerr) /\ fs' = fs1 /\ UNCHANGED written
           ELSE IF Unencodable(config_content)
           THEN /\ FailWith("write", WriteErrorMsg, UnicodeEncodeErrorText)
                /\ fs' = OpenWrite(fs1, args.output)
                /\ written' = Append(written, <<>>)
           ELSE IF env.disk_full
           THEN /\ FailWith("write", WriteErrorMsg, <<ENOSPC>>)
                /\ fs' = OpenWrite(fs1, args.output)
                /\ written' = Append(written, <<>>)
           ELSE /\ fs' = OpenWrite(fs1, args.output)
                /\ written' = Append(written, config_content)
                /\ printed' = Append(printed, <<GeneratedMsg>> \o PathText(args.output))
                /\ result' = Return(0)
                /\ mpc' = "done"
                /\ UNCHANGED failure
    /\ UNCHANGED <<args, env, options, custom_config, fragments, config_content, valid,
                   gpc, fmtVars, daemonVars, laterVars>>

NextMain == MainLoad \/ MainCustom \/ MainGenerate \/ MainValidate \/ MainWrite

SpecMain == InitMain /\ [][NextMain]_vars


(***************************************************************************)
(* The daemon: find_config_file().                                         *)
(***************************************************************************)
\* what a path may name: nothing, a file, a directory, or a symbolic link
\* whose target is missing
PathKinds == {"missing", "file", "directory", "dangling"}

\* os.path.exists(config_locations[i])
PathExists(i) == location_kind[i] \in {"file", "directory"}

InitDaemon ==
    /\ location_kind \in [DOMAIN config_locations -> PathKinds]
    /\ location_index = 1
    /\ config_path = None
    /\ dpc = "loop"
    /\ FmtIdle
    /\ GenIdle
    /\ MainIdle
    /\ LaterIdleExcept("")

\* find_config_file that returns the location without testing that it exists
FindConfigCheck_no_test ==
    /\ dpc = "loop"
    /\ location_index \in DOMAIN config_locations
    /\ config_path' = config_locations[location_index]
    /\ dpc' = "returned"
    /\ UNCHANGED <<location_kind, location_index, fmtVars, genVars, mainVars, laterVars>>

\* find_config_file, lines 33-35: one turn of the loop over the locations
FindConfigCheck ==
    /\ dpc = "loop"
    /\ location_index \in DOMAIN config_locations
    /\ IF PathExists(location_index)
       THEN /\ config_path' = config_locations[location_index]
            /\ dpc' = "returned"
            /\ UNCHANGED location_index
       ELSE /\ location_index' = location_index + 1
            /\ UNCHANGED <<config_path, dpc>>
    /\ UNCHANGED <<location_kind, fmtVars, genVars, mainVars, laterVars>>

\* find_config_file, line 37: the loop has ended, return None
FindConfigNone ==
    /\ dpc = "loop"
    /\ location_index \notin DOMAIN config_locations
    /\ config_path' = None
    /\ dpc' = "returned"
    /\ UNCHANGED <<location_kind, location_index, fmtVars, genVars, mainVars, laterVars>>

NextDaemon == FindConfigCheck \/ FindConfigNone

SpecDaemon == InitDaemon /\ [][NextDaemon]_vars

(***************************************************************************)
(* The modules modelled below share nothing with the generator: each has   *)
(* one variable, a record of its environment and of its progress.          *)
(***************************************************************************)
oldVars == <<fmtVars, genVars, mainVars, daemonVars>>

OldIdle == FmtIdle /\ GenIdle /\ MainIdle /\ DaemonIdle

(***************************************************************************)
(* The daemon: wait_for_display().                                         *)
(***************************************************************************)
\* range(30): the number of probes of a loop
ProbeLimit == 30

\* an environment variable that is not set; "" is one set to the empty text
Unset == "<unset>"

\* os.environ.get(name) is falsy
Falsy(value) == value \in {Unset, ""}

\* how a run of xset -q may end: exit status 0, another exit status, no
\* answer in 5 seconds, no such command, a command that may not be run
XsetOutcomes == {"zero", "nonzero", "timeout", "notfound", "denied"}

notWfd == <<oldVars, cfg, tray, svc, term, sig>>

InitWait ==
    /\ wfd \in [ session_type    : {Unset, "x11", "wayland", "tty"},
                 display         : {Unset, "", ":0"},
                 wayland_display : {Unset, "", "wayland-0"},
                 runtime_dir     : {Unset, "/run/user/1000"},
                 attempt   : {0},
                 probes    : {0},
                 succeeded : {FALSE},
                 result    : {"none"},
                 pc        : {"call"} ]
    /\ OldIdle
    /\ LaterIdleExcept("wfd")

WaitReturn(value) == wfd' = [wfd EXCEPT !.result = value, !.pc = "returned"]

\* wait_for_display, lines 41-48 and 63-74: the branch on the session type
WaitStart ==
    /\ wfd.pc = "call"
    /\ IF wfd.session_type = "x11"
       THEN IF Falsy(wfd.display) THEN WaitReturn("False")
            ELSE wfd' = [wfd EXCEPT !.pc = "x11"]
       ELSE IF wfd.session_type = "wayland"
       THEN IF Falsy(wfd.wayland_display) THEN WaitReturn("False")
            ELSE IF Falsy(wfd.runtime_dir) THEN WaitReturn("True")
            ELSE wfd' = [wfd EXCEPT !.pc = "wayland"]
       ELSE WaitReturn("True")
    /\ UNCHANGED notWfd

\* wait_for_display, lines 51-62: one turn of the x11 loop, a run of xset -q
WaitProbeX11 ==
    /\ wfd.pc = "x11"
    /\ wfd.attempt < ProbeLimit
    /\ \E outcome \in XsetOutcomes :
          IF outcome = "zero"
          THEN wfd' = [wfd EXCEPT !.probes = @ + 1, !.succeeded = TRUE,
                                  !.result = "True", !.pc = "returned"]
          ELSE IF outcome = "denied"
          THEN wfd' = [wfd EXCEPT !.probes = @ + 1, !.result = "PermissionError",
                                  !.pc = "raised"]
          ELSE wfd' = [wfd EXCEPT !.probes = @ + 1, !.attempt = @ + 1]
    /\ UNCHANGED notWfd

\* wait_for_display, lines 75-79: one turn of the wayland loop, a test that
\* the socket exists
WaitProbeWayland ==
    /\ wfd.pc = "wayland"
    /\ wfd.attempt < ProbeLimit
    /\ \E exists \in BOOLEAN :
          IF exists
          THEN wfd' = [wfd EXCEPT !.probes = @ + 1, !.succeeded = TRUE,
                                  !.result = "True", !.pc = "returned"]
          ELSE wfd' = [wfd EXCEPT !.probes = @ + 1, !.attempt = @ + 1]
    /\ UNCHANGED notWfd

\* wait_for_display, line 81: a loop has ended without success
WaitProceedAnyway ==
    /\ wfd.pc \in {"x11", "wayland"}
    /\ wfd.attempt = ProbeLimit
    /\ WaitReturn("True")
    /\ UNCHANGED notWfd

NextWait == WaitStart \/ WaitProbeX11 \/ WaitProbeWayland \/ WaitProceedAnyway

SpecWait == InitWait /\ [][NextWait]_vars

(***************************************************************************)
(* toshy-config: config.py.  A file is a record of its kind and, for a     *)
(* regular file, of its text; the file system maps the paths the program   *)
(* names to files.                                                         *)
(***************************************************************************)
Absent    == [kind |-> "absent", text |-> <<>>]
Directory == [kind |-> "directory", text |-> <<>>]
File(text) == [kind |-> "file", text |-> text]

\* os.path.exists
Exists(file) == file.kind # "absent"

DefaultText == <<"D", "=", "1">>
OldText     == <<"O", "=", "0">>

UserPath    == "~/.config/toshy/toshy_config.py"
EtcPath     == "/etc/toshy/toshy_config.py"
DefaultPath == "/usr/share/toshy/default-toshy-config/toshy_config.py"

\* f"{config_file}.backup"
BackupOf(path) == IF path = UserPath THEN "~/.config/toshy/toshy_config.py.backup"
                  ELSE "/etc/toshy/toshy_config.py.backup"

\* the files a --validate argument may name
ArgFiles ==
    ( "good.py" :> File(CustomValid) ) @@ ( "bad.py" :> File(CustomInvalid) ) @@
    ( "missing.py" :> Absent ) @@ ( "adir" :> Directory )

\* args.validate of a call without --validate
NoValidate == "<None>"
\* --validate as the last word of the command line, as in the epilog
NoValue == "<no value>"

ValidateArgs == {NoValidate, NoValue, "", "current"} \cup DOMAIN ArgFiles

\* find_config_file, lines 12-23
find_config_file(files) ==
    IF Exists(files[UserPath]) THEN UserPath
    ELSE IF Exists(files[EtcPath]) THEN EtcPath
    ELSE None

\* config.validate_config, lines 25-47; utf8 tells whether sys.stdout can
\* encode the check mark of line 37
config_validate_config(file, utf8) ==
    IF ~Exists(file) THEN FALSE
    ELSE IF file.kind # "file" THEN FALSE
    ELSE IF Compile(file.text) = "SyntaxError" THEN FALSE
    ELSE IF Compile(file.text) # "ok" THEN FALSE
    ELSE utf8

\* show_config_info, lines 49-68
show_config_info(files, utf8) ==
    IF find_config_file(files) = None THEN FALSE
    ELSE config_validate_config(files[find_config_file(files)], utf8)

\* what input() gives: a line, or EOFError on a closed standard input
EOFError == <<"<EOF>">>
Answers == { <<"y">>, <<"Y">>, <<"n">>, <<>>, <<"y", "e", "s">>, EOFError }

\* the last call of validate_config: the file it was given and its result
NoCheck == [called |-> FALSE, file |-> Absent, result |-> FALSE]
Checked(file, utf8) ==
    [called |-> TRUE, file |-> file, result |-> config_validate_config(file, utf8)]

NoInstall == [asked |-> FALSE, answer |-> <<>>, backup |-> "none", before |-> Absent]

notCfg == <<oldVars, wfd, tray, svc, term, sig>>

InitConfig ==
    /\ \E user \in {Absent, File(CustomValid), File(CustomInvalid)},
          etc \in {Absent, File(CustomValid)},
          old \in {Absent, File(OldText)},
          default \in {Absent, File(DefaultText)},
          utf8 \in BOOLEAN,
          a \in [info : BOOLEAN, validate : ValidateArgs, backup : BOOLEAN,
                 restore : BOOLEAN, install : BOOLEAN] :
          cfg = [ pc |-> "parse", argv |-> a, args |-> a, checked |-> NoCheck,
                  files |-> ( UserPath :> user ) @@ ( EtcPath :> etc ) @@
                            ( BackupOf(UserPath) :> old ) @@ ( BackupOf(EtcPath) :> Absent ) @@
                            ( DefaultPath :> default ) @@ ArgFiles,
                  utf8 |-> utf8, success |-> TRUE, ran |-> <<>>, all_ok |-> TRUE,
                  exit_code |-> 0, raised |-> FALSE, inst |-> NoInstall ]
    /\ OldIdle
    /\ LaterIdleExcept("cfg")

\* success = op() and success, with the record of the operation run
Ran(c, op, ok) ==
    [c EXCEPT !.success = ok /\ c.success, !.ran = Append(c.ran, op),
              !.all_ok = ok /\ c.all_ok]

\* main, lines 173-177: parse_args, and --info when no argument is truthy
ConfigParse ==
    /\ cfg.pc = "parse"
    /\ IF cfg.args.validate = NoValue
       THEN cfg' = [cfg EXCEPT !.pc = "exit", !.exit_code = 2]
       ELSE LET none == /\ ~cfg.args.info /\ ~cfg.args.backup /\ ~cfg.args.restore
                        /\ ~cfg.args.install /\ cfg.args.validate \in {NoValidate, ""}
            IN  cfg' = [cfg EXCEPT !.pc = "info", !.args.info = cfg.args.info \/ none]
    /\ UNCHANGED notCfg

\* main, lines 181-182
ConfigInfo ==
    /\ cfg.pc = "info"
    /\ LET c == [cfg EXCEPT !.pc = "validate"]
           found == find_config_file(cfg.files)
           k == IF found = None THEN c
                ELSE [c EXCEPT !.checked = Checked(cfg.files[found], cfg.utf8)]
       IN  cfg' = IF cfg.args.info THEN Ran(k, "info", show_config_info(cfg.files, cfg.utf8))
                  ELSE c
    /\ UNCHANGED notCfg

\* main, lines 184-193
ConfigValidate ==
    /\ cfg.pc = "validate"
    /\ LET c == [cfg EXCEPT !.pc = "backup"]
           v == cfg.args.validate
           found == find_config_file(cfg.files)
       IN  cfg' = IF v \in {NoValidate, ""} THEN c
                  ELSE IF v = "current"
                  THEN IF found = None THEN Ran(c, "validate", FALSE)
                       ELSE Ran([c EXCEPT !.checked = Checked(cfg.files[found], cfg.utf8)],
                                "validate", config_validate_config(cfg.files[found], cfg.utf8))
                  ELSE Ran([c EXCEPT !.checked = Checked(cfg.files[v], cfg.utf8)],
                           "validate", config_validate_config(cfg.files[v], cfg.utf8))
    /\ UNCHANGED notCfg

\* backup_config, lines 70-85: copied tells whether shutil.copy2 succeeds
backup_config(files, copied) ==
    LET found == find_config_file(files)
    IN  IF found = None THEN [ok |-> FALSE, files |-> files]
        ELSE IF copied
        THEN [ok |-> TRUE, files |-> [files EXCEPT ![BackupOf(found)] = files[found]]]
        ELSE [ok |-> FALSE, files |-> files]

\* restore_config, lines 87-107
restore_config(files, copied) ==
    LET found == find_config_file(files)
    IN  IF found = None THEN [ok |-> FALSE, files |-> files]
        ELSE IF ~Exists(files[BackupOf(found)]) THEN [ok |-> FALSE, files |-> files]
        ELSE IF copied
        THEN [ok |-> TRUE, files |-> [files EXCEPT ![found] = files[BackupOf(found)]]]
        ELSE [ok |-> FALSE, files |-> files]

\* main, lines 195-196
ConfigBackup ==
    /\ cfg.pc = "backup"
    /\ \E copied \in BOOLEAN :
          LET c == [cfg EXCEPT !.pc = "restore"]
              r == backup_config(cfg.files, copied)
          IN  cfg' = IF cfg.args.backup
                     THEN Ran([c EXCEPT !.files = r.files], "backup", r.ok)
                     ELSE c
    /\ UNCHANGED notCfg

\* main, lines 198-199
ConfigRestore ==
    /\ cfg.pc = "restore"
    /\ \E copied \in BOOLEAN :
          LET c == [cfg EXCEPT !.pc = "install"]
              r == restore_config(cfg.files, copied)
          IN  cfg' = IF cfg.args.restore
                     THEN Ran([c EXCEPT !.files = r.files], "restore", r.ok)
                     ELSE c
    /\ UNCHANGED notCfg

\* install_default_config, lines 109-149: made tells whether os.makedirs
\* succeeds, answer is what input() gives, backed and copied tell whether
\* the copy of backup_config and the copy of line 144 succeed
install_default_config(files, made, answer, backed, copied) ==
    IF ~Exists(files[DefaultPath]) THEN [end |-> "False", files |-> files, inst |-> NoInstall]
    ELSE IF ~made THEN [end |-> "OSError", files |-> files, inst |-> NoInstall]
    ELSE IF Exists(files[UserPath]) /\ answer = EOFError
    THEN [end |-> "EOFError", files |-> files,
          inst |-> [NoInstall EXCEPT !.asked = TRUE, !.before = files[UserPath]]]
    ELSE IF Exists(files[UserPath]) /\ Lower(answer) # <<"y">>
    THEN [end |-> "False", files |-> files,
          inst |-> [asked |-> TRUE, answer |-> answer, backup |-> "none",
                    before |-> files[UserPath]]]
    ELSE LET exists == Exists(files[UserPath])
             b == IF exists THEN backup_config(files, backed) ELSE [ok |-> FALSE, files |-> files]
             i == IF exists
                  THEN [asked |-> TRUE, answer |-> answer,
                        backup |-> IF b.ok THEN "made" ELSE "failed", before |-> files[UserPath]]
                  ELSE NoInstall
         IN  IF copied
             THEN [end |-> "True", files |-> [b.files EXCEPT ![UserPath] = files[DefaultPath]],
                   inst |-> i]
             ELSE [end |-> "False", files |-> b.files, inst |-> i]

\* main, lines 201-202; an exception that leaves install_default_config
\* leaves main, and the interpreter exits with status 1
ConfigInstall ==
    /\ cfg.pc = "install"
    /\ \E made \in BOOLEAN, answer \in Answers, backed \in BOOLEAN, copied \in BOOLEAN :
          LET c == [cfg EXCEPT !.pc = "exiting"]
              r == install_default_config(cfg.files, made, answer, backed, copied)
              done == [c EXCEPT !.files = r.files, !.inst = r.inst]
          IN  cfg' = IF ~cfg.args.install THEN c
                     ELSE IF r.end \in {"True", "False"}
                     THEN Ran(done, "install", r.end = "True")
                     ELSE [done EXCEPT !.pc = "exit", !.exit_code = 1, !.raised = TRUE,
                                       !.ran = Append(cfg.ran, "install"), !.all_ok = FALSE]
    /\ UNCHANGED notCfg

\* main, line 204: sys.exit(0 if success else 1)
ConfigExit ==
    /\ cfg.pc = "exiting"
    /\ cfg' = [cfg EXCEPT !.pc = "exit", !.exit_code = IF cfg.success THEN 0 ELSE 1]
    /\ UNCHANGED notCfg

NextConfig ==
    \/ ConfigParse
    \/ ConfigInfo
    \/ ConfigValidate
    \/ ConfigBackup
    \/ ConfigRestore
    \/ ConfigInstall
    \/ ConfigExit

SpecConfig == InitConfig /\ [][NextConfig]_vars

(***************************************************************************)
(* toshy-tray: tray.py.                                                    *)
(***************************************************************************)
\* the tray implementations of the package
Gtk4Tray     == "toshy.tray_gtk4"
Gtk3Fixed    == "toshy.tray_gtk3_fixed"
Gtk3Original == "toshy_tray"

\* how the import of an implementation may end: the module loads; it or a
\* module it imports is missing; gi.require_version finds no such namespace
\* (tray_gtk3_fixed, line 18); the initialisation of the runtime fails
LoadOutcomes == {"loads", "ImportError", "ValueError", "RuntimeError"}

\* the exit statuses of an implementation's main
TrayStatuses == {0, 1}

notTray == <<oldVars, wfd, cfg, svc, term, sig>>

InitTray ==
    /\ \E l \in [{Gtk4Tray, Gtk3Fixed, Gtk3Original} -> LoadOutcomes] :
          tray = [pc |-> "call", load |-> l, tried |-> <<>>, ran |-> None,
                  result |-> 0, exc |-> None]
    /\ OldIdle
    /\ LaterIdleExcept("tray")

\* try: from <module> import main; return main() / except ImportError
TryImplementation(t, module, next) ==
    LET u == [t EXCEPT !.tried = Append(t.tried, module)]
    IN  { [u EXCEPT !.pc = "returned", !.ran = module, !.result = status] :
              status \in IF t.load[module] = "loads" THEN TrayStatuses ELSE {} }
        \cup
        { [u EXCEPT !.pc = next] : x \in IF t.load[module] = "ImportError" THEN {0} ELSE {} }
        \cup
        { [u EXCEPT !.pc = "raised", !.exc = t.load[module]] :
              x \in IF t.load[module] \in {"ValueError", "RuntimeError"} THEN {0} ELSE {} }

\* main, lines 13-20: the improved GTK3 tray
TrayFixed ==
    /\ tray.pc = "call"
    /\ tray' \in TryImplementation(tray, Gtk3Fixed, "original")
    /\ UNCHANGED notTray

\* main, lines 22-29: the original GTK3 tray
TrayOriginal ==
    /\ tray.pc = "original"
    /\ tray' \in TryImplementation(tray, Gtk3Original, "none")
    /\ UNCHANGED notTray

\* main, lines 31-35: no implementation
TrayNone ==
    /\ tray.pc = "none"
    /\ tray' = [tray EXCEPT !.pc = "returned", !.result = 1]
    /\ UNCHANGED notTray

NextTray == TrayFixed \/ TrayOriginal \/ TrayNone

SpecTray == InitTray /\ [][NextTray]_vars

(***************************************************************************)
(* The service manager: common/service_manager.py.  The object is          *)
(* constructed with or without a notification manager; its methods are     *)
(* called one after the other.                                             *)
(***************************************************************************)
\* the calls of one run of the model
MaxCalls == 2

SessionMonitor == "toshy-session-monitor.service"
CosmicDbus     == "toshy-cosmic-dbus.service"
KwinDbus       == "toshy-kwin-dbus.service"
WlrootsDbus    == "toshy-wlroots-dbus.service"
ConfigService  == "toshy-config.service"

services_to_enable == <<SessionMonitor, CosmicDbus, KwinDbus, WlrootsDbus, ConfigService>>

\* the list of enable_services, last service first
services_to_disable_reversed ==
    [i \in 1..Len(services_to_enable) |->
        services_to_enable[Len(services_to_enable) + 1 - i]]

services_to_disable == <<ConfigService, CosmicDbus, KwinDbus, WlrootsDbus, SessionMonitor>>

StoppedMsg       == "Toshy systemd service stopped."
StoppedAfterMsg  == "Toshy systemd services stopped."
FailedToStopMsg  == "Failed to stop Toshy services: "
EnabledMsg       == "Toshy services ENABLED. Will autostart at login."
DisabledMsg      == "Toshy systemd services DISABLED. Will not autostart."

\* a notification: the message, the exception it quotes, the icon
Notification(message, e, icon) == [message |-> message, e |-> e, icon |-> icon]

\* how a run of systemctl may end
SystemctlOutcomes == {"zero", "nonzero", "timeout", "notfound"}

\* the exception subprocess.run raises, or the one the code raises itself
ExceptionOf(outcome) ==
    CASE outcome = "nonzero"  -> "CalledProcessError"
      [] outcome = "timeout"  -> "TimeoutExpired"
      [] outcome = "notfound" -> "FileNotFoundError"

NoCall == [op |-> "none", issued |-> <<>>, sent |-> <<>>, outcome |-> "none", end |-> "none"]

notSvc == <<oldVars, wfd, cfg, tray, term, sig>>

InitService ==
    /\ \E ntfy \in BOOLEAN :
          svc = [pc |-> "ready", ntfy |-> ntfy, calls |-> 0, i |-> 0, call |-> NoCall]
    /\ OldIdle
    /\ LaterIdleExcept("svc")

\* if self.ntfy: self.ntfy.send_notification(message, icon)
Send(s, n) == IF s.ntfy THEN [s EXCEPT !.call.sent = Append(s.call.sent, n)] ELSE s

\* stop_services, lines 75-114
stop_services(s, outcome) ==
    LET c == [s EXCEPT !.call = [NoCall EXCEPT !.op = "stop", !.outcome = outcome,
                                               !.issued = <<<<"stop", "toshy">>>>,
                                               !.end = "returned"],
                       !.calls = s.calls + 1]
    IN  IF outcome = "zero"
        THEN Send(c, Notification(StoppedMsg, None, "icon_grayscale"))
        ELSE Send(Send(c, Notification(FailedToStopMsg, ExceptionOf(outcome), "icon_grayscale")),
                  Notification(StoppedAfterMsg, None, "icon_inactive"))

ServiceStop ==
    /\ svc.pc = "ready"
    /\ svc.calls < MaxCalls
    /\ \E outcome \in SystemctlOutcomes : svc' = stop_services(svc, outcome)
    /\ UNCHANGED notSvc

\* enable_services, lines 159-180, and disable_services, lines 196-217: the
\* list and the command are set up
ServiceCall ==
    /\ svc.pc = "ready"
    /\ svc.calls < MaxCalls
    /\ \E op \in {"enable", "disable"} :
          svc' = [svc EXCEPT !.pc = op, !.i = 1, !.calls = svc.calls + 1,
                             !.call = [NoCall EXCEPT !.op = op, !.end = "running"]]
    /\ UNCHANGED notSvc

\* the list a loop goes through
ServicesOf(op) == IF op = "enable" THEN services_to_enable ELSE services_to_disable

\* lines 182-188 and 219-225: one turn of the loop, a run of systemctl with
\* check=True (a run without timeout)
ServiceRunSystemctl ==
    /\ svc.pc \in {"enable", "disable"}
    /\ svc.i <= Len(ServicesOf(svc.pc))
    /\ \E outcome \in SystemctlOutcomes \ {"timeout"} :
          LET c == [svc EXCEPT !.call.issued = Append(@, <<svc.pc, ServicesOf(svc.pc)[svc.i]>>),
                               !.call.outcome = outcome]
          IN  svc' = IF outcome = "zero" THEN [c EXCEPT !.i = svc.i + 1]
                     ELSE [c EXCEPT !.pc = "ready", !.call.end = ExceptionOf(outcome)]
    /\ UNCHANGED notSvc

\* lines 190-194 and 227-231: the notification after the loop
ServiceLoopDone ==
    /\ svc.pc \in {"enable", "disable"}
    /\ svc.i > Len(ServicesOf(svc.pc))
    /\ LET c == [svc EXCEPT !.pc = "ready", !.call.end = "returned"]
       IN  svc' = IF svc.pc = "enable"
                  THEN Send(c, Notification(EnabledMsg, None, "icon_active"))
                  ELSE Send(c, Notification(DisabledMsg, None, "icon_inactive"))
    /\ UNCHANGED notSvc

NextService == ServiceStop \/ ServiceCall \/ ServiceRunSystemctl \/ ServiceLoopDone

SpecService == InitService /\ [][NextService]_vars

(***************************************************************************)
(* Terminal utilities: common/terminal_utils.py.  The module imports       *)
(* shutil and subprocess only; the name os is bound nowhere in it.         *)
(***************************************************************************)
\* TERMINAL_APPS, lines 23-43: the command and the desktops it belongs to
TERMINAL_APPS ==
    << [cmd |-> "gnome-terminal", de_list |-> {"gnome", "unity", "cinnamon"}],
       [cmd |-> "ptyxis", de_list |-> {"gnome", "unity", "cinnamon"}],
       [cmd |-> "konsole", de_list |-> {"kde"}],
       [cmd |-> "xfce4-terminal", de_list |-> {"xfce"}],
       [cmd |-> "mate-terminal", de_list |-> {"mate"}],
       [cmd |-> "qterminal", de_list |-> {"lxqt"}],
       [cmd |-> "lxterminal", de_list |-> {"lxde"}],
       [cmd |-> "terminology", de_list |-> {"enlightenment"}],
       [cmd |-> "cosmic-term", de_list |-> {"cosmic"}],
       [cmd |-> "io.elementary.terminal", de_list |-> {"pantheon"}],
       [cmd |-> "kitty", de_list |-> {}],
       [cmd |-> "alacritty", de_list |-> {}],
       [cmd |-> "tilix", de_list |-> {}],
       [cmd |-> "terminator", de_list |-> {}],
       [cmd |-> "xterm", de_list |-> {}],
       [cmd |-> "rxvt", de_list |-> {}],
       [cmd |-> "urxvt", de_list |-> {}],
       [cmd |-> "st", de_list |-> {}],
       [cmd |-> "kgx", de_list |-> {}] >>

\* an item of a command list: a str or something else
Str(value) == [is_str |-> TRUE, value |-> value]
NotStr == [is_str |-> FALSE, value |-> "1"]

\* the values given for command_list: a str, the empty list, a list of
\* strings, a list with an int
CommandLists ==
    { [is_list |-> FALSE, items |-> <<>>],
      [is_list |-> TRUE, items |-> <<>>],
      [is_list |-> TRUE, items |-> <<Str("ls")>>],
      [is_list |-> TRUE, items |-> <<Str("ls"), NotStr>>] }

\* the terminals that may be installed in the model
Terminals == {"x-terminal-emulator", "konsole", "xterm"}

notTerm == <<oldVars, wfd, cfg, tray, svc, sig>>

InitTerminal ==
    /\ \E c \in CommandLists, de \in {None, "kde", "sway"}, t \in {Unset, "", "konsole"},
          installed \in SUBSET Terminals :
          \E starts \in SUBSET installed :
             term = [pc |-> "call", command_list |-> c, desktop_env |-> de, TERMINAL |-> t,
                     installed |-> installed, starts |-> starts, launched |-> <<>>,
                     result |-> None]
    /\ OldIdle
    /\ LaterIdleExcept("term")

\* run_cmd_lst_in_terminal, lines 62-69: the validation of the input
TerminalValidate ==
    /\ term.pc = "call"
    /\ LET c == term.command_list
           strings == \A i \in 1..Len(c.items) : c.items[i].is_str
       IN  term' = IF ~c.is_list \/ ~strings \/ c.items = <<>>
                   THEN [term EXCEPT !.pc = "returned", !.result = "False"]
                   ELSE [term EXCEPT !.pc = "default"]
    /\ UNCHANGED notTerm

\* run_cmd_lst_in_terminal, lines 86-90: os.environ.get('TERMINAL') in a
\* module that does not import os
TerminalDefault ==
    /\ term.pc = "default"
    /\ term' = [term EXCEPT !.pc = "raised", !.result = "NameError"]
    /\ UNCHANGED notTerm

NextTerminal == TerminalValidate \/ TerminalDefault

SpecTerminal == InitTerminal /\ [][NextTerminal]_vars

(***************************************************************************)
(* The daemon: the subprocess fallback of main() and its signal handler.   *)
(* A signal may arrive between any two steps; a Python handler runs on top *)
(* of whatever the process was doing, which is the stack of frames.        *)
(***************************************************************************)
\* the signals of one run of the model
MaxSignals == 2

SIGTERM == "SIGTERM"
SIGINT  == "SIGINT"

\* the exit statuses of the child
ChildStatuses == {0, 1}

NoExit == [how |-> "none", code |-> 0]

notSig == <<oldVars, wfd, cfg, tray, svc, term>>

InitSignals ==
    /\ sig = [pc |-> "spawn", handlers |-> {}, child |-> "none", child_code |-> 0,
              terminated |-> FALSE, killed |-> FALSE, frames |-> <<>>, signals |-> 0,
              exit |-> NoExit]
    /\ OldIdle
    /\ LaterIdleExcept("sig")

\* the process ends: sys.exit, the end of main, or death by a signal
DaemonExit(s, how, code) ==
    [s EXCEPT !.pc = "exited", !.frames = <<>>, !.exit = [how |-> how, code |-> code]]

\* main, lines 201-205: subprocess.Popen(cmd); an OSError is caught at 230
SpawnChild ==
    /\ sig.pc = "spawn"
    /\ \E started \in BOOLEAN :
          sig' = IF started THEN [sig EXCEPT !.pc = "install_term", !.child = "running"]
                 ELSE DaemonExit(sig, "Exception", 1)
    /\ UNCHANGED notSig

\* main, line 217
InstallTermHandler ==
    /\ sig.pc = "install_term"
    /\ sig.frames = <<>>
    /\ sig' = [sig EXCEPT !.pc = "install_int", !.handlers = @ \cup {SIGTERM}]
    /\ UNCHANGED notSig

\* main, line 218
InstallIntHandler ==
    /\ sig.pc = "install_int"
    /\ sig.frames = <<>>
    /\ sig' = [sig EXCEPT !.pc = "wait", !.handlers = @ \cup {SIGINT}]
    /\ UNCHANGED notSig

\* main, lines 221-225: process.wait() returns when the child has exited
WaitForChild ==
    /\ sig.pc = "wait"
    /\ sig.frames = <<>>
    /\ sig.child = "exited"
    /\ sig' = DaemonExit(sig, "child exited", sig.child_code)
    /\ UNCHANGED notSig

\* the child exits, of its own or after the terminate of the handler
ChildExits ==
    /\ sig.child = "running"
    /\ \E code \in ChildStatuses : sig' = [sig EXCEPT !.child = "exited", !.child_code = code]
    /\ UNCHANGED notSig

\* a signal is delivered to the daemon after the child was spawned: the
\* handler of lines 207-214 if it is installed for it; otherwise the default
\* action of SIGTERM, the end of the process, or Python's default handler of
\* SIGINT, a KeyboardInterrupt that the clause of line 227 turns into exit 0
SignalArrives ==
    /\ sig.pc \notin {"spawn", "exited"}
    /\ sig.signals < MaxSignals
    /\ \E s \in {SIGTERM, SIGINT} :
          LET c == [sig EXCEPT !.signals = sig.signals + 1]
          IN  sig' = IF s \in sig.handlers
                     THEN [c EXCEPT !.frames = Append(sig.frames, "terminate")]
                     ELSE IF s = SIGTERM THEN DaemonExit(c, "killed by SIGTERM", 143)
                     ELSE DaemonExit(c, "KeyboardInterrupt", 0)
    /\ UNCHANGED notSig

\* the frame on top of the stack
Top == sig.frames[Len(sig.frames)]
SetTop(s, f) == [s EXCEPT !.frames[Len(s.frames)] = f]

\* signal_handler, lines 208-209: process.terminate()
HandlerTerminate ==
    /\ sig.pc # "exited"
    /\ sig.frames # <<>>
    /\ Top = "terminate"
    /\ sig' = SetTop([sig EXCEPT !.terminated = TRUE], "wait")
    /\ UNCHANGED notSig

\* signal_handler, lines 210-213: process.wait(timeout=5) returns when the
\* child has exited, and raises TimeoutExpired when it is still running
HandlerWait ==
    /\ sig.pc # "exited"
    /\ sig.frames # <<>>
    /\ Top = "wait"
    /\ sig' = IF sig.child = "exited" THEN SetTop(sig, "exit") ELSE SetTop(sig, "kill")
    /\ UNCHANGED notSig

\* signal_handler, line 213: process.kill()
HandlerKill ==
    /\ sig.pc # "exited"
    /\ sig.frames # <<>>
    /\ Top = "kill"
    /\ sig' = SetTop([sig EXCEPT !.killed = TRUE, !.child = "exited",
                                 !.child_code = IF sig.child = "exited" THEN @ ELSE 1],
                     "exit")
    /\ UNCHANGED notSig

\* signal_handler, line 214: sys.exit(0)
HandlerExit ==
    /\ sig.pc # "exited"
    /\ sig.frames # <<>>
    /\ Top = "exit"
    /\ sig' = DaemonExit(sig, "signal_handler", 0)
    /\ UNCHANGED notSig

NextSignals ==
    \/ SpawnChild
    \/ InstallTermHandler
    \/ InstallIntHandler
    \/ WaitForChild
    \/ ChildExits
    \/ SignalArrives
    \/ HandlerTerminate
    \/ HandlerWait
    \/ HandlerKill
    \/ HandlerExit

SpecSignals == InitSignals /\ [][NextSignals]_vars

(***************************************************************************)
(* Properties of the formatter and of the generator.                       *)
(***************************************************************************)
Keybindings  == Get(options, "keybindings", EmptyDict)
Applications == Get(Keybindings, "applications", EmptyDict)
Shortcuts    == Get(Keybindings, "globalShortcuts", EmptyDict)
MacStyle     == Get(Keybindings, "macStyle", FALSE)
Generated    == gpc \in {"generated", "validated"}

\* no modifier token occurs in k
NoModifier(k) == \A tok \in Modifiers : ~Contains(k, tok)

\* kb is tok followed by a key name without modifier tokens
ModifierThenKey(kb, tok) ==
    StartsWith(kb, tok) /\ NoModifier(SubSeq(kb, Len(tok) + 1, Len(kb)))

\* all characters of t are ASCII letters or digits
Alphanumeric(t) == \A i \in 1..Len(t) : t[i] \in LettersDigits \ {"_"}

\* a chord of alphanumeric key names: a plain key name, or Cmd+, Ctrl+ or
\* Alt+, then an optional Shift+, then a key name, as in the tests
PlainChord(c) ==
    \/ Alphanumeric(c)
    \/ \E m \in {CmdTok, CtrlTok, AltTok}, s \in {<<>>, ShiftTok} :
          /\ StartsWith(c, m \o s)
          /\ Len(c) > Len(m \o s)
          /\ Alphanumeric(SubSeq(c, Len(m \o s) + 1, Len(c)))

PlainBindings(b) == \A i \in 1..Len(b) : PlainChord(b[i][1]) /\ PlainChord(b[i][2])

\* the application names and the chords of the bundle are alphanumeric
PlainNames ==
    /\ \A i \in 1..Len(Applications) :
          Alphanumeric(Applications[i][1]) /\ PlainBindings(Applications[i][2])
    /\ PlainBindings(Shortcuts)

\* the log level of the bundle is made of letters
PlainLevel == Alphanumeric(Get(Get(options, "logging", EmptyDict), "level", LevelINFO))

\* the custom text is empty or compiles on its own
PlainCustom == custom_config = <<>> \/ validate_config(custom_config)

\* the positions of the table-open syntax keymap(" in a fragment, in order
TableOpens(frag) == Matches(frag, KeymapOpen)

NthOpen(frag, n) ==
    CHOOSE p \in TableOpens(frag) : Cardinality({q \in TableOpens(frag) : q < p}) = n - 1

MainDone == mpc = "done"

\* a step of main has failed
MainFailed == failure.step # "none"

\* the steps of the run that the state machine of main names
MainSteps == SelectSeq(steps, LAMBDA s : s # "custom")

\* s is an initial part of t
IsPrefix(s, t) == Len(s) <= Len(t) /\ SubSeq(t, 1, Len(s)) = s

\* the order of the steps of a run with the given --validate flag
StepOrder(validate) ==
    IF validate THEN <<"load", "assemble", "validate", "write">>
    ELSE <<"load", "assemble", "write">>

\* the kinds of --options path that do not name a readable file
UnreadableKinds == {"missing", "directory", "denied"}

\* nothing stands in the way of writing the output path: no part of its
\* directory is a file, the path is not a directory, the file or the
\* directory that receives a new entry may be written, the disk has room
WritableLocation ==
    LET d == DirName(args.output)
        existing == {q \in Prefixes(d) \cup {<<>>} : q \in fs.dirs}
        deepest  == CHOOSE q \in existing : \A r \in existing : Len(r) <= Len(q)
    IN  /\ Prefixes(d) \cap fs.files = {}
        /\ args.output \notin fs.dirs
        /\ args.output \notin fs.readonly
        /\ args.output \notin fs.files => deepest \notin fs.readonly
        /\ ~env.disk_full

\* C3: a run of main in which a step failed ends with main returning a
\* non-zero code, never with an exception leaving main, and the last message
\* printed carries the text of the exception that caused the failure.
C3_FailuresReturnNonZero ==
    (MainDone /\ MainFailed) =>
        /\ result.kind = "return"
        /\ result.code # 0
        /\ Len(printed) > 0
        /\ EndsWith(printed[Len(printed)], failure.text)

\* C4: the steps of a run are an initial part of load, assemble, validate
\* (only with --validate), write; the output path is written at most once,
\* exactly once when main returns 0, and not at all when the run failed at
\* loading the options or at validation.
C4_StepOrderAndSingleWrite ==
    /\ IsPrefix(MainSteps, StepOrder(args.validate))
    /\ Len(written) <= 1
    /\ result = Return(0) => Len(written) = 1
    /\ (MainFailed /\ failure.step \in {"load", "validate"}) => Len(written) = 0

C4_Witness ==
    /\ MainDone
    /\ args.validate
    /\ result = Return(0)
    /\ MainSteps = <<"load", "assemble", "validate", "write">>
    /\ written = <<config_content>>

\* C5: when main has reached the write step and the location of the output
\* path is writable, be it a bare file name or a path whose directories do
\* not exist yet, main ends with the directories of the path created, the
\* assembled document written to the path, and the code 0.
C5_WritableOutputIsWritten ==
    [][(mpc = "write" /\ WritableLocation) =>
          /\ result' = Return(0)
          /\ written' = <<config_content>>
          /\ DirName(args.output) \in fs'.dirs
          /\ args.output \in fs'.files]_vars

\* C6: when the --options path does not name a readable file, main neither
\* assembles nor writes, and it ends returning 1 after printing one message
\* that contains the path.
C6_UnreadableOptions ==
    env.options_file.kind \in UnreadableKinds =>
        /\ "assemble" \notin Range(steps)
        /\ "write" \notin Range(steps)
        /\ written = <<>>
        /\ config_content = <<>>
        /\ MainDone =>
              /\ result = Return(1)
              /\ Len(printed) = 1
              /\ Contains(printed[1], OptionsPath)

C6_Witness ==
    /\ MainDone
    /\ env.options_file.kind = "missing"
    /\ result = Return(1)
    /\ Contains(printed[1], OptionsPath)
    /\ steps = <<"load">>

\* C7: the applications fragment of a mapping with N applications holds
\* exactly N occurrences of the table-open syntax, the n-th one followed by
\* the name of the n-th application of the mapping.
C7_OneTablePerApplication ==
    Generated =>
        LET frag == fragments.application_configs
        IN  /\ Cardinality(TableOpens(frag)) = Len(Applications)
            /\ Count(frag, KeymapOpen) = Len(Applications)
            /\ \A n \in 1..Len(Applications) :
                  MatchAt(frag, KeymapOpen \o Applications[n][1] \o KeymapTail,
                          NthOpen(frag, n))

C7_Witness ==
    /\ Generated
    /\ Len(Applications) = 2
    /\ Count(fragments.application_configs, KeymapOpen) = 2

\* C8: for an empty or absent globalShortcuts mapping the fragment is exactly
\* the placeholder comment, and for a non-empty one it holds the Global
\* System table with one line per chord pair.
C8_GlobalShortcutsPlaceholder ==
    Generated =>
        LET frag == fragments.global_shortcuts
        IN  IF Len(Shortcuts) = 0
            THEN /\ frag = <<NoGlobalLine>>
                 /\ ~Contains(frag, <<GlobalTableOpenLine>>)
            ELSE /\ Contains(frag, <<GlobalTableOpenLine, NL>> \o Indent)
                 /\ EndsWith(frag, <<",", NL, TableCloseLine>>)
                 /\ Count(frag, Indent) = Len(Shortcuts)

C8_Witness ==
    /\ Generated
    /\ "globalShortcuts" \in DOMAIN Keybindings
    /\ Len(Shortcuts) = 0
    /\ fragments.global_shortcuts = <<NoGlobalLine>>

\* C9: for a key name k without modifier tokens, the formatted Cmd+k and
\* Ctrl+k contain C(" and "), and the formatted Alt+k contains A(" and ").
C9_ModifierTokensOpenAndClose ==
    fpc = "done" =>
        /\ (ModifierThenKey(key_binding, CmdTok) \/ ModifierThenKey(key_binding, CtrlTok))
              => (Contains(formatted, COpen) /\ Contains(formatted, TokClose))
        /\ ModifierThenKey(key_binding, AltTok)
              => (Contains(formatted, AOpen) /\ Contains(formatted, TokClose))

C9_Witness ==
    /\ fpc = "done"
    /\ key_binding = AltTok \o <<"F", "2">>
    /\ formatted = AOpen \o <<"F", "2">> \o TokClose

\* C10: the document holds the toggle line and the static chord table
\* exactly when keybindings.macStyle is enabled, and holds the disabled
\* marker, and no toggle line, exactly when it is disabled or absent.
C10_MacStyleGating ==
    Generated =>
        /\ MacStyle <=> Contains(config_content, <<MacToggleLine>>)
        /\ MacStyle <=> Contains(config_content, MacStyleText)
        /\ ~MacStyle <=> Contains(config_content, <<MacDisabledLine>>)

C10_Witness ==
    /\ Generated
    /\ MacStyle
    /\ Contains(config_content, <<MacToggleLine>>)
    /\ Contains(config_content, MacStyleText)

C10_WitnessAbsent ==
    /\ Generated
    /\ "keybindings" \in DOMAIN options
    /\ "macStyle" \notin DOMAIN Keybindings
    /\ Contains(config_content, <<MacDisabledLine>>)

\* a key no generator reads, and values it may hold
UnknownKey    == "unknownKey"
UnknownValues == { <<>>, <<"x">>, <<MacToggleLine>> }

\* the bundles made from opts by adding the unknown key at top level or,
\* when opts has keybindings, inside keybindings
WithUnknownKey(opts) ==
    { opts @@ (UnknownKey :> v) : v \in UnknownValues }
    \cup { [opts EXCEPT !["keybindings"] = @ @@ (UnknownKey :> v)] :
             v \in IF "keybindings" \in DOMAIN opts THEN UnknownValues ELSE {} }

\* the line LOG_LEVEL = 'INFO'
DefaultLevelLine == LogLevelOpen \o LevelINFO \o <<SQ>>

\* C11: adding a key that no generator reads to the bundle, at top level or
\* inside keybindings, gives the same fragments and, at the same time of
\* generation, the same document; a bundle without macStyle gives the
\* Mac-style fragment of macStyle False, and a bundle without logging.level
\* gives the line LOG_LEVEL = 'INFO'.
C11_UnknownKeysAndDefaults ==
    Generated =>
        /\ \A o2 \in WithUnknownKey(options) :
              /\ Fragments(o2) = fragments
              /\ \E t \in Times : generate_config(o2, custom_config, t) = config_content
        /\ "macStyle" \notin DOMAIN Keybindings =>
              /\ fragments.mac_style_config = generate_mac_style_config(FALSE)
              /\ Contains(config_content, <<MacDisabledLine>>)
        /\ "level" \notin DOMAIN Get(options, "logging", EmptyDict) =>
              /\ Contains(fragments.base_config, <<NL>> \o DefaultLevelLine)
              /\ Contains(config_content, <<NL>> \o DefaultLevelLine \o <<NL>>)

C11_Witness ==
    /\ Generated
    /\ "keybindings" \in DOMAIN options
    /\ "macStyle" \notin DOMAIN Keybindings
    /\ Len(Applications) > 0
    /\ "level" \notin DOMAIN Get(options, "logging", EmptyDict)
    /\ Contains(config_content, DefaultLevelLine)
    /\ \A o2 \in WithUnknownKey(options) : Fragments(o2) = fragments

\* the custom text of the document: the text given, or the placeholder
CustomOrPlaceholder == IF custom_config = <<>> THEN <<NoCustomLine>> ELSE custom_config

\* C12: the document is the fixed preamble, the line of the generation time,
\* the base, Mac-style, applications and global-shortcuts fragments in this
\* order, the custom text as given (the placeholder comment when it is
\* empty) and the fixed trailer, each part followed by an empty line.
C12_DocumentLayout ==
    Generated =>
        \E t \in Times :
            config_content =
                TemplatePreamble \o <<NL>> \o GenTimeOpen \o t \o <<DQ, NL, NL>>
                \o generate_base_config(options) \o <<NL, NL>>
                \o generate_mac_style_config(MacStyle) \o <<NL, NL>>
                \o generate_application_configs(Applications) \o <<NL, NL>>
                \o generate_global_shortcuts(Shortcuts) \o <<NL, NL>>
                \o CustomOrPlaceholder \o <<NL, NL>>
                \o TemplateTrailer

C12_Witness ==
    /\ Generated
    /\ custom_config = CustomValid
    /\ MacStyle
    /\ Len(Applications) > 0
    /\ Len(Shortcuts) > 0
    /\ "logging" \in DOMAIN options
    /\ EndsWith(config_content, CustomValid \o <<NL, NL>> \o TemplateTrailer)

\* C13: a call of validate_config returns True exactly when the text
\* compiles and False when compile raises a syntax error, and it changes
\* neither the text, the bundle, the fragments nor any file.
C13_ValidateIsParseOnly ==
    [][gpc = "generated" =>
          /\ valid' = (Compile(config_content) = "ok")
          /\ Compile(config_content) \in {"ok", "SyntaxError"}
          /\ UNCHANGED <<options, custom_config, fragments, config_content, fs, written>>]_vars

C13_Witness ==
    /\ gpc = "validated"
    /\ custom_config = CustomInvalid
    /\ Compile(config_content) = "SyntaxError"
    /\ ~valid

\* C14: when compile raises an exception that is no syntax error, validate_config
\* reports no validation failure and the run of main does not fail on account
\* of the exception: main neither raises nor fails at the validate step.
C14_NonSyntaxExceptionIsNotFatal ==
    (MainDone /\ "validate" \in Range(steps)
              /\ Compile(config_content) \notin {"ok", "SyntaxError"}) =>
        /\ \A i \in 1..Len(printed) : ~StartsWith(printed[i], <<ValidationFailedMsg>>)
        /\ result.kind # "raise"
        /\ failure.step # "validate"

Logging     == Get(options, "logging", EmptyDict)
Performance == Get(options, "performance", EmptyDict)
Security    == Get(options, "security", EmptyDict)

\* the fragment holds the line: the text at the start of a line of it
HasLine(frag, line) == Contains(<<NL>> \o frag \o <<NL>>, <<NL>> \o line \o <<NL>>)
HasLineOpen(frag, open) == Contains(<<NL>> \o frag, <<NL>> \o open)

\* C15 as stated: the base fragment holds the version marker, and each of the
\* LOG_LEVEL, PROCESS_PRIORITY and RESTRICTED_MODE lines exactly when its
\* option is present in the bundle, whatever the value.
C15_LinesExactlyWhenPresent ==
    Generated =>
        /\ HasLine(fragments.base_config, <<VersionLine>>)
        /\ HasLineOpen(fragments.base_config, LogLevelOpen) <=> "level" \in DOMAIN Logging
        /\ HasLineOpen(fragments.base_config, PriorityOpen) <=> "priority" \in DOMAIN Performance
        /\ HasLine(fragments.base_config, <<RestrictedLine>>)
              <=> "restrictedMode" \in DOMAIN Security

\* C15, amended: the base fragment holds the version marker and a LOG_LEVEL
\* line always (of the level given, else of INFO), the PROCESS_PRIORITY line
\* exactly when the priority is present and not 0, and the RESTRICTED_MODE
\* line exactly when restrictedMode is present and true.
C15_LinesWhenPresentAndTruthy ==
    Generated =>
        /\ HasLine(fragments.base_config, <<VersionLine>>)
        /\ HasLine(fragments.base_config,
                   LogLevelOpen \o Get(Logging, "level", LevelINFO) \o <<SQ>>)
        /\ HasLineOpen(fragments.base_config, PriorityOpen)
              <=> ("priority" \in DOMAIN Performance /\ Performance["priority"] # 0)
        /\ ("priority" \in DOMAIN Performance /\ Performance["priority"] # 0) =>
              HasLine(fragments.base_config, PriorityOpen \o IntText(Performance["priority"]))
        /\ HasLine(fragments.base_config, <<RestrictedLine>>)
              <=> ("restrictedMode" \in DOMAIN Security /\ Security["restrictedMode"])

C15_Witness ==
    /\ Generated
    /\ "level" \in DOMAIN Logging
    /\ "priority" \in DOMAIN Performance
    /\ Performance["priority"] = 0
    /\ "restrictedMode" \in DOMAIN Security
    /\ ~Security["restrictedMode"]
    /\ ~HasLineOpen(fragments.base_config, PriorityOpen)
    /\ HasLine(fragments.base_config, <<VersionLine>>)

\* the formatter has returned
Formatted == fpc = "done"

\* the key names of letters and digits
PlainKeyNames == {k \in KeyNames : Alphanumeric(k)}

\* kb is a sequence of modifier tokens followed by the key name k
ModifiersThenKey(kb, k) ==
    /\ EndsWith(kb, k)
    /\ \E mods \in SeqsUpTo(Modifiers, MaxParts) : kb = Flatten(mods) \o k

\* C16: for every chord that ends in a key name, with or without modifier
\* tokens before it, the output ends with the key name in lower case and the
\* closing sequence.
C16_FinalKeyLowerCased ==
    Formatted =>
        \A k \in PlainKeyNames :
            ModifiersThenKey(key_binding, k) => EndsWith(formatted, Lower(k) \o TokClose)

\* the open sequence that the formatter puts for a modifier token
OpenOf(m) == IF m = AltTok THEN AOpen ELSE COpen

\* C17: a chord M+Shift+k, M one of Cmd+, Ctrl+, Alt+ and k a key name,
\* becomes the one token of M, C(" or A(", holding shift-k and closed exactly
\* once.
C17_ShiftInsideOpenedToken ==
    Formatted =>
        \A m \in {CmdTok, CtrlTok, AltTok}, k \in KeyNames :
            key_binding = m \o ShiftTok \o k =>
                /\ formatted = OpenOf(m) \o ShiftInfix \o k \o TokClose
                /\ Count(formatted, TokClose) = 1
                /\ Count(formatted, COpen) + Count(formatted, AOpen) = 1

C17_Witness ==
    /\ Formatted
    /\ key_binding = AltTok \o ShiftTok \o <<"F", "2">>
    /\ formatted = AOpen \o ShiftInfix \o <<"F", "2">> \o TokClose

\* C18: when the chord holds Cmd+ or Ctrl+, the output holds no alt-token
\* open sequence and at most one open sequence in all.
C18_ModifierStepsExclusive ==
    (Formatted /\ (Contains(key_binding, CmdTok) \/ Contains(key_binding, CtrlTok))) =>
        /\ ~Contains(formatted, AOpen)
        /\ Count(formatted, COpen) + Count(formatted, AOpen) <= 1

\* the options of opts that the base fragment is made from
BasePart(opts) == [k \in DOMAIN opts \cap {"logging", "performance", "security"} |-> opts[k]]

\* the one option k of keybindings, when opts has it
KeybindingsPart(opts, k) ==
    IF k \in DOMAIN Get(opts, "keybindings", EmptyDict)
    THEN "keybindings" :> (k :> opts["keybindings"][k])
    ELSE EmptyDict

\* C19: each fragment of a bundle is the fragment of the bundle cut down to
\* the options of that section (logging, performance and security for the
\* base fragment, one option of keybindings for each other fragment), so
\* bundles that agree on a section have the same fragment of it, whatever
\* the other sections and the custom text hold.
C19_SectionIndependence ==
    Generated =>
        /\ fragments.base_config = Fragments(BasePart(options)).base_config
        /\ fragments.mac_style_config
              = Fragments(KeybindingsPart(options, "macStyle")).mac_style_config
        /\ fragments.application_configs
              = Fragments(KeybindingsPart(options, "applications")).application_configs
        /\ fragments.global_shortcuts
              = Fragments(KeybindingsPart(options, "globalShortcuts")).global_shortcuts

C19_Witness ==
    /\ Generated
    /\ custom_config = CustomValid
    /\ {"logging", "performance", "security", "keybindings"} \subseteq DOMAIN options
    /\ MacStyle
    /\ Len(Applications) > 0
    /\ Len(Shortcuts) > 0
    /\ fragments.application_configs
          = Fragments(KeybindingsPart(options, "applications")).application_configs

\* C20: find_config_file returns the first of the user, bundled and system
\* locations that exists, and None exactly when none of the three exists.
C20_FirstExistingLocation ==
    dpc = "returned" =>
        /\ config_path = None <=> \A i \in DOMAIN config_locations : ~PathExists(i)
        /\ config_path # None =>
              \E i \in DOMAIN config_locations :
                  /\ config_path = config_locations[i]
                  /\ PathExists(i)
                  /\ \A j \in 1..(i - 1) : ~PathExists(j)
        /\ config_locations = <<UserConfig, BundledConfig, SystemConfig>>

C20_Witness ==
    /\ dpc = "returned"
    /\ location_kind[1] = "dangling"
    /\ location_kind[2] = "missing"
    /\ location_kind[3] = "file"
    /\ config_path = SystemConfig

\* wait_for_display has ended
WaitEnded == wfd.pc \in {"returned", "raised"}

\* C21: in every environment wait_for_display ends, by returning, after at
\* most 30 probes; it returns True at the first successful probe, with no
\* probe after it; True when the session type is unset or unknown; True when
\* all the probes have failed; and False only for x11 with DISPLAY unset or
\* wayland with WAYLAND_DISPLAY unset.
C21_BoundedProbesAndResults ==
    /\ wfd.probes <= ProbeLimit
    /\ wfd.pc # "raised"
    /\ wfd.succeeded => (wfd.pc = "returned" /\ wfd.result = "True")
    /\ (wfd.pc # "call" /\ wfd.session_type \notin {"x11", "wayland"}) =>
          (wfd.result = "True" /\ wfd.probes = 0)
    /\ (wfd.probes = ProbeLimit /\ ~wfd.succeeded /\ WaitEnded) => wfd.result = "True"
    /\ wfd.result = "False" =>
          \/ wfd.session_type = "x11" /\ wfd.display = Unset
          \/ wfd.session_type = "wayland" /\ wfd.wayland_display = Unset

\* the operations a command line asks for, in the order of main
Requested(a) ==
    LET none == /\ ~a.info /\ ~a.backup /\ ~a.restore /\ ~a.install /\ a.validate = NoValidate
    IN  (IF a.info \/ none THEN <<"info">> ELSE <<>>) \o
        (IF a.validate # NoValidate THEN <<"validate">> ELSE <<>>) \o
        (IF a.backup THEN <<"backup">> ELSE <<>>) \o
        (IF a.restore THEN <<"restore">> ELSE <<>>) \o
        (IF a.install THEN <<"install">> ELSE <<>>)

\* C22: toshy-config runs every requested operation, in the order info,
\* validate, backup, restore, install, whether or not an earlier one failed,
\* with info the operation of a call without flags, and exits with 0 when
\* every operation it ran succeeded and with 1 otherwise.
C22_RunsAllAndExitCode ==
    cfg.pc = "exit" =>
        /\ cfg.ran = Requested(cfg.argv)
        /\ cfg.exit_code = IF cfg.all_ok THEN 0 ELSE 1

\* C23: validate_config does not raise, and returns True exactly when the
\* file exists and its content compiles (False for a missing path, for a
\* syntax error, for any other error of reading or compiling).
C23_TrueIffExistsAndCompiles ==
    cfg.checked.called =>
        /\ ~cfg.raised \/ cfg.pc = "exit"
        /\ cfg.checked.result <=>
               /\ cfg.checked.file.kind = "file"
               /\ Compile(cfg.checked.file.text) = "ok"

\* C30: install_default_config overwrites an existing user configuration
\* only after the answer y and a successful backup of the existing file;
\* after another answer, or a backup that failed, the file is unchanged.
C30_OverwriteOnlyAfterBackup ==
    (cfg.pc \in {"exiting", "exit"} /\ cfg.inst.asked) =>
        \/ cfg.files[UserPath] = cfg.inst.before
        \/ /\ Lower(cfg.inst.answer) = <<"y">>
           /\ cfg.inst.backup = "made"
           /\ cfg.files[BackupOf(UserPath)] = cfg.inst.before

\* the fallback chain of the tray as the specification gives it
TrayChain == <<Gtk4Tray, Gtk3Fixed, Gtk3Original>>

\* the positions of the chain whose implementation loads
TrayLoadable == {i \in 1..Len(TrayChain) : tray.load[TrayChain[i]] = "loads"}

\* C24: the tray entry point tries GTK4, then GTK3-fixed, then
\* GTK3-original; it runs the first one that loads, goes on to the next
\* whenever one cannot be loaded, whatever the reason, and returns 1 of its
\* own only when none loads.
C24_FirstLoadableOfChain ==
    tray.pc \in {"returned", "raised"} =>
        /\ tray.pc = "returned"
        /\ IF TrayLoadable = {}
           THEN tray.ran = None /\ tray.result = 1
           ELSE /\ tray.ran = TrayChain[CHOOSE i \in TrayLoadable : \A j \in TrayLoadable : i <= j]
                /\ tray.tried = SubSeq(TrayChain, 1, Len(tray.tried))

\* the services of the commands a call has issued
IssuedServices == [i \in 1..Len(svc.call.issued) |-> svc.call.issued[i][2]]

IsPrefixOf(s, t) == Len(s) <= Len(t) /\ s = SubSeq(t, 1, Len(s))

\* what C25 says of enable_services: session monitor first, config last
EnableOrder ==
    svc.call.op = "enable" =>
        /\ IsPrefixOf(IssuedServices, services_to_enable)
        /\ \A i \in 1..Len(svc.call.issued) : svc.call.issued[i][1] = "enable"
        /\ svc.call.end = "returned" =>
              /\ Len(IssuedServices) = Len(services_to_enable)
              /\ IssuedServices[1] = SessionMonitor
              /\ IssuedServices[Len(IssuedServices)] = ConfigService

C28_OneNotificationPerStop ==
    (svc.call.op = "stop" /\ svc.ntfy) =>
        /\ svc.call.end = "returned"
        /\ Len(svc.call.sent) = 1
        /\ svc.call.sent[1].message =
              IF svc.call.outcome = "zero" THEN StoppedMsg ELSE FailedToStopMsg
        /\ svc.call.outcome # "zero" =>
              \A i \in 1..Len(svc.call.sent) :
                  svc.call.sent[i].message \notin {StoppedMsg, StoppedAfterMsg}

TerminalEnded == term.pc \in {"returned", "raised"}

\* the command list is a non-empty list of strings
ValidCommand ==
    /\ term.command_list.is_list
    /\ term.command_list.items # <<>>
    /\ \A i \in 1..Len(term.command_list.items) : term.command_list.items[i].is_str

\* C26: for every input (not a list of strings, an empty list, no terminal
\* installed, a terminal whose launch fails) run_cmd_lst_in_terminal ends by
\* returning a boolean, True if the command was launched in a terminal and
\* False otherwise, and never by raising.
C26_ReturnsBoolean ==
    TerminalEnded =>
        /\ term.pc = "returned"
        /\ term.result \in {"True", "False"}
        /\ term.result = "True" <=> term.launched # <<>>
        /\ ~ValidCommand => term.result = "False"

\* the candidates in the order of the docstring: the default terminal
\* (TERMINAL, x-terminal-emulator), the terminals of the desktop
\* environment, any terminal
DocCandidates ==
    (IF Falsy(term.TERMINAL) THEN <<>> ELSE <<term.TERMINAL>>) \o
    <<"x-terminal-emulator">> \o
    SelectSeq([i \in 1..Len(TERMINAL_APPS) |-> TERMINAL_APPS[i].cmd],
              LAMBDA c : \E i \in 1..Len(TERMINAL_APPS) :
                            /\ TERMINAL_APPS[i].cmd = c
                            /\ term.desktop_env \in TERMINAL_APPS[i].de_list) \o
    [i \in 1..Len(TERMINAL_APPS) |-> TERMINAL_APPS[i].cmd]

\* the positions of the candidates that are installed and start
Starting == {i \in 1..Len(DocCandidates) : DocCandidates[i] \in term.starts}

\* C27: run_cmd_lst_in_terminal tries the default terminal first, then the
\* terminals of the desktop environment, then any terminal; it launches the
\* command in the first candidate that starts, at most one terminal per
\* call, and goes on to the next candidate when a launch fails.
C27_FirstCandidateThatStarts ==
    (TerminalEnded /\ ValidCommand) =>
        /\ Len(term.launched) <= 1
        /\ IF Starting = {} THEN term.launched = <<>>
           ELSE term.launched =
                  <<DocCandidates[CHOOSE i \in Starting : \A j \in Starting : i <= j]>>

\* C29: in the subprocess fallback, whenever the daemon ends in response to
\* SIGTERM or SIGINT after the child was spawned, the child has been
\* terminated first (terminate, then kill if it has not exited), at every
\* point a signal can arrive, the time between the spawn and the
\* installation of the handlers included; no run leaves the child running
\* after the daemon has exited.
C29_ChildTerminatedBeforeExit ==
    sig.pc = "exited" =>
        /\ sig.child # "running"
        /\ sig.exit.how \in {"signal_handler", "KeyboardInterrupt", "killed by SIGTERM"} =>
              sig.terminated

====
